---- MODULE Spec2Model ----
(***************************************************************************)
(* The ledger data-access layer of the XRPL explorer: getClient (endpoint  *)
(* failover), the three facade operations fetchBalance, fetchTransactions  *)
(* and fetchTransactionDetails, and the Dashboard page that calls them.    *)
(*                                                                         *)
(* An async function runs atomically between two awaits, so every action   *)
(* below is one such run: from the settling of the awaited promise         *)
(* (connect, delay, request, disconnect) to the next await or the return.  *)
(***************************************************************************)
EXTENDS Integers, Sequences, FiniteSets, TLC

VARIABLES
    pc,                   \* per facade call: where the invocation is suspended
    kind,                 \* per facade call: which operation it is
    arg,                  \* per facade call: the address or hash it was given
    shuffled,             \* per facade call: getClient's local shuffledServers
    clients,              \* per facade call: the Client objects its getClient created
    client,               \* the facade's `let client` variable (a reference or null)
    pending,              \* per facade call: the Client its awaited promise belongs to
    response,             \* per facade call: the reply its request resolved with
    result,               \* per facade call: the value it returns
    path,                 \* per facade call: the exit path taken through try/catch
    outcome,              \* per facade call: returned or rejected
    xrpl_debug_response,  \* window.__xrpl_debug_response
    sessionStorage,       \* the browser's sessionStorage
    page,                 \* the page shown: Index or Dashboard
    route,                \* the Dashboard's :address URL parameter
    loads,                \* the runs of the Dashboard's loadData effect
    ui,                   \* the Dashboard's component state
    txPage,               \* the Transaction page: its parameters and component state
    multi                 \* the invocation of the per-server variant of fetchTransactions

facadeVars == <<pc, kind, arg, shuffled, clients, client, pending, response,
                result, path, outcome, xrpl_debug_response, sessionStorage>>

uiVars == <<page, route, loads, ui, txPage, multi>>

vars == <<facadeVars, uiVars>>

----------------------------------------------------------------------------
(* Bounds *)

\* Number of configured endpoints when the facade is called directly.
PoolSize == 2

\* Number of configured endpoints under the Dashboard.
DashPoolSize == 1

\* Number of runs of the Dashboard's loadData effect.
MaxLoads == 2

\* The number of times the Transaction page is opened.
MaxVisits == 2

\* The number of entries of XRPL_SERVERS the per-server variant walks.
MultiPoolSize == 3

\* The facade operations a caller invokes directly; two run concurrently.
DirectCalls == {1, 2}

Loads == 1..MaxLoads

\* Each run of loadData makes two facade calls.
TxCall(l) == 2 * l + 1

BalCall(l) == 2 * l + 2

Calls == DirectCalls \cup {TxCall(l) : l \in Loads} \cup {BalCall(l) : l \in Loads}

----------------------------------------------------------------------------
(* Optional values: an absent field is the empty tuple, a present one a    *)
(* one-element tuple.                                                      *)

None == <<>>

Some(x) == <<x>>

IsSome(o) == Len(o) > 0

Get(o) == o[1]

\* The difference taken without a lower bound.
Unclamped(a, b) == b

Max(a, b) == IF a >= b THEN a ELSE b

\* A string field used as a condition: undefined and '' are falsy.
TruthyStr(o) == IsSome(o) /\ Get(o) # ""

----------------------------------------------------------------------------
(* Program constants *)

DropsPerXRP == 1000000

BaseReserve == 10

OwnerReserve == 2

RippleEpochOffset == 946684800

BitbobTag == 29202152

\* 'BitBob' as character codes
BitBobPrefix == <<66, 105, 116, 66, 111, 98>>

----------------------------------------------------------------------------
(* utils: formatXRPAmount, formatXRPLDate, hexToAscii                      *)

\* A raw amount as a node sends it: absent, a string of drops, or an object
\* carrying a value string.
NoAmount == [k |-> "absent"]

Drops(n) == [k |-> "drops", n |-> n]

ValueObject(n) == [k |-> "object", value |-> n]

\* A string that is not a number, such as a delivered amount 'unavailable'.
TextAmount == [k |-> "text"]

Truthy(a) == a.k # "absent"

\* NaN.toFixed(6) + ' XRP'
NaNXRP == [nan |-> TRUE, unit |-> "XRP"]

\* The value written without the division by 1_000_000.
Unscaled(x) == [whole |-> x, frac |-> 0, unit |-> "XRP"]

\* (x / 1_000_000).toFixed(6) + ' XRP' for a whole number x: the integer part
\* and the six fractional digits.
ToFixed6(x) == [whole |-> x \div DropsPerXRP, frac |-> x % DropsPerXRP, unit |-> "XRP"]

formatXRPAmount(amount) ==
    IF ~Truthy(amount) THEN [whole |-> 0, frac |-> 0, unit |-> "XRP"]
    ELSE IF amount.k = "text" THEN NaNXRP
    ELSE IF amount.k = "object" THEN ToFixed6(amount.value)
    ELSE ToFixed6(amount.n)

\* The argument is a number of seconds, or absent (undefined): undefined + n is
\* NaN and new Date(NaN).toLocaleString() is 'Invalid Date'.
formatXRPLDate(rippleEpochDate) ==
    IF IsSome(rippleEpochDate)
    THEN [k |-> "instant", unix |-> Get(rippleEpochDate) + RippleEpochOffset]
    ELSE [k |-> "invalid"]

\* An ISO-8601 timestamp, written here by the number of seconds between
\* 2000-01-01T00:00:00Z and the instant it names.
Iso(s) == [iso |-> s]

\* new Date(closeTimeIso).getTime() / 1000: seconds since the Unix epoch.
IsoToUnixSeconds(t) == t.iso + RippleEpochOffset

\* Every hexadecimal digit taken as a character code of its own.
hexDigitsAsChars(hex) == hex

\* hex is a sequence of hexadecimal digits (0..15); each pair is one character
\* code, a trailing single digit is parsed on its own.
RECURSIVE hexToAscii(_)
hexToAscii(hex) ==
    IF Len(hex) = 0 THEN <<>>
    ELSE IF Len(hex) = 1 THEN <<hex[1]>>
    ELSE <<16 * hex[1] + hex[2]>> \o hexToAscii(SubSeq(hex, 3, Len(hex)))

StartsWith(s, p) == Len(s) >= Len(p) /\ SubSeq(s, 1, Len(p)) = p

----------------------------------------------------------------------------
(* Values a facade operation returns *)

NoResult == [type |-> "none"]

ZeroBalance ==
    [type |-> "balance",
     total |-> [whole |-> 0, frac |-> 0, unit |-> "XRP"],
     available |-> [whole |-> 0, frac |-> 0, unit |-> "XRP"],
     reserve |-> [whole |-> 0, frac |-> 0, unit |-> "XRP"]]

EmptyList == [type |-> "list", items |-> <<>>]

NullResult == [type |-> "null"]

DefaultResult(k) ==
    IF k = "fetchBalance" THEN ZeroBalance
    ELSE IF k = "fetchTransactions" THEN EmptyList
    ELSE NullResult

----------------------------------------------------------------------------
(* Replies.  shape "null" is a reply that is not an object (reading        *)
(* response.result throws), "noresult" one without a result.               *)

NullReply == [shape |-> "null"]

NoResultReply == [shape |-> "noresult"]

Throws(reply) == reply.shape = "null"

(* fetchBalance: balance.ts lines 18-43.  A returned value is              *)
(* [threw |-> FALSE, path, value]; threw |-> TRUE is a raised exception.   *)
NormalizeBalance(reply) ==
    IF Throws(reply) THEN [threw |-> TRUE]
    ELSE IF reply.shape = "noresult" \/ ~IsSome(reply.account_data)
    THEN [threw |-> FALSE, path |-> "early", value |-> ZeroBalance]
    ELSE
      LET accountData == Get(reply.account_data)
          ownerCount == IF IsSome(accountData.OwnerCount)
                        THEN Get(accountData.OwnerCount) ELSE 0
          totalBalance == accountData.Balance
          reserveRequirement == (BaseReserve + ownerCount * OwnerReserve) * DropsPerXRP
          availableBalance == Max(0, totalBalance - reserveRequirement)
      IN [threw |-> FALSE, path |-> "normal",
          value |-> [type |-> "balance",
                     total |-> ToFixed6(totalBalance),
                     available |-> ToFixed6(availableBalance),
                     reserve |-> ToFixed6(reserveRequirement)]]

\* The instruction's declared fields consulted before the delivered amount.
ListAmountDeclaredFirst(txData, meta) ==
    IF Truthy(txData.DeliverMax) THEN txData.DeliverMax
    ELSE IF txData.Amount.k \in {"drops", "text"} THEN txData.Amount
    ELSE IF txData.Amount.k = "object" THEN Drops(txData.Amount.value)
    ELSE IF Truthy(meta.delivered_amount) THEN meta.delivered_amount
    ELSE Drops(0)

(* The execution metadata's delivered amount, then the instruction's       *)
(* DeliverMax, then its Amount (a string, or an object's value):           *)
(* transactions.ts lines 120-129.                                          *)
ListAmount(txData, meta) ==
    IF Truthy(meta.delivered_amount) THEN meta.delivered_amount
    ELSE IF Truthy(txData.DeliverMax) THEN txData.DeliverMax
    ELSE IF txData.Amount.k \in {"drops", "text"} THEN txData.Amount
    ELSE IF txData.Amount.k = "object" THEN Drops(txData.Amount.value)
    ELSE Drops(0)

\* A fallback that knows no sentinel for offers.
DestinationOrUnknown(txData) ==
    IF TruthyStr(txData.Destination) THEN Get(txData.Destination) ELSE "Unknown"

\* transactions.ts lines 131-132
ListDestination(txData) ==
    IF TruthyStr(txData.Destination) THEN Get(txData.Destination)
    ELSE IF txData.TransactionType = Some("OfferCreate") THEN "XRPL DEX"
    ELSE "Unknown"

\* SourceTag === 29202152 || SourceTag === "29202152"
HasBitbobTag(tag) == IsSome(tag) /\ Get(tag).v = BitbobTag

\* SourceTag?.toString()
TagToString(tag) == IF IsSome(tag) THEN Some(Get(tag).v) ELSE None

\* Memos[0]?.Memo?.MemoData, when it is a non-empty string
FirstMemoData(memos) ==
    IF IsSome(memos) /\ Len(Get(memos)) > 0 /\ IsSome(Get(memos)[1])
       /\ Len(Get(Get(memos)[1])) > 0
    THEN Get(memos)[1]
    ELSE None

(* One entry of the account_tx reply: null when the entry has no tx_json,  *)
(* meta or hash, else the record (transactions.ts lines 109-167).          *)
MapEntry(tx) ==
    IF ~IsSome(tx.tx_json) \/ ~IsSome(tx.meta) \/ ~TruthyStr(tx.hash) THEN None
    ELSE
      LET txData == Get(tx.tx_json)
          meta == Get(tx.meta)
          memoData == FirstMemoData(txData.Memos)
          memo == IF IsSome(memoData) THEN hexToAscii(Get(memoData)) ELSE <<>>
          isBitbob == HasBitbobTag(txData.SourceTag) \/ StartsWith(memo, BitBobPrefix)
          timestamp == IF IsSome(tx.close_time_iso)
                       THEN Some(IsoToUnixSeconds(Get(tx.close_time_iso)))
                       ELSE txData.date
      IN Some([hash |-> tx.hash,
               type |-> IF IsSome(txData.TransactionType)
                        THEN Get(txData.TransactionType) ELSE "Unknown",
               date |-> formatXRPLDate(timestamp),
               amount |-> formatXRPAmount(ListAmount(txData, meta)),
               fee |-> formatXRPAmount(txData.Fee),
               status |-> meta.TransactionResult,
               sourceTag |-> TagToString(txData.SourceTag),
               from |-> txData.Account,
               to |-> Some(ListDestination(txData)),
               memo |-> IF Len(memo) > 0 THEN Some(memo) ELSE None,
               isBitbob |-> IF isBitbob THEN "true" ELSE "false"])

\* A filter that only drops the nulls of the map.
IsMapped(m) == IsSome(m)

\* Boolean(tx?.hash && tx?.from && tx?.status): transactions.ts lines 168-174
IsValidMapped(m) ==
    IsSome(m) /\ TruthyStr(Get(m).hash) /\ TruthyStr(Get(m).from) /\ TruthyStr(Get(m).status)

\* The records without those whose hash an earlier record already has.
UnwrapDistinct(ms) ==
    LET all == [i \in 1..Len(ms) |-> Get(ms[i])]
        first(i) == \A j \in 1..(i - 1) : all[j].hash # all[i].hash
        idx == {i \in 1..Len(all) : first(i)}
        RECURSIVE pick(_)
        pick(i) == IF i > Len(all) THEN <<>>
                   ELSE IF i \in idx THEN <<all[i]>> \o pick(i + 1)
                   ELSE pick(i + 1)
    IN pick(1)

Unwrap(ms) == [i \in 1..Len(ms) |-> Get(ms[i])]

(* fetchTransactions after the request: transactions.ts lines 103-177.     *)
(* A null entry in the list makes tx.tx_json throw.                        *)
NormalizeTransactions(reply) ==
    IF Throws(reply) THEN [threw |-> TRUE]
    ELSE IF reply.shape = "noresult" \/ ~IsSome(reply.transactions)
            \/ Len(Get(reply.transactions)) = 0
    THEN [threw |-> FALSE, path |-> "early", value |-> EmptyList]
    ELSE
      LET raw == Get(reply.transactions)
      IN IF \E i \in 1..Len(raw) : raw[i].null THEN [threw |-> TRUE]
         ELSE LET mapped == [i \in 1..Len(raw) |-> MapEntry(raw[i])]
              IN [threw |-> FALSE, path |-> "normal",
                  value |-> [type |-> "list",
                             items |-> Unwrap(SelectSeq(mapped, IsValidMapped))]]

\* meta?.delivered_amount || Amount || DeliverMax: transactions.ts line 36
DetailAmount(txInfo) ==
    IF IsSome(txInfo.meta) /\ Truthy(Get(txInfo.meta).delivered_amount)
    THEN Get(txInfo.meta).delivered_amount
    ELSE IF Truthy(txInfo.Amount) THEN txInfo.Amount
    ELSE txInfo.DeliverMax

\* txInfo.date ? formatXRPLDate(txInfo.date) : txInfo.close_time_iso
DetailDate(txInfo) ==
    IF IsSome(txInfo.date) /\ Get(txInfo.date) # 0 THEN formatXRPLDate(txInfo.date)
    ELSE IF IsSome(txInfo.close_time_iso)
    THEN [k |-> "iso", unix |-> IsoToUnixSeconds(Get(txInfo.close_time_iso))]
    ELSE [k |-> "undefined"]

\* Memos?.[0]?.Memo?.MemoData
DetailMemo(txInfo) ==
    LET memoData == FirstMemoData(txInfo.Memos)
    IN IF IsSome(memoData) THEN Some(hexToAscii(Get(memoData))) ELSE None

\* SourceTag === 29202152 || SourceTag === "29202152" || (memo && memo.startsWith('BitBob'))
DetailIsBitbob(txInfo) ==
    IF HasBitbobTag(txInfo.SourceTag) THEN "true"
    ELSE IF ~IsSome(DetailMemo(txInfo)) THEN "undefined"
    ELSE IF StartsWith(Get(DetailMemo(txInfo)), BitBobPrefix) THEN "true"
    ELSE "false"

(* fetchTransactionDetails after the request: transactions.ts lines 25-66. *)
(* Reading txInfo.meta.TransactionResult throws when the reply has no meta.*)
NormalizeDetails(reply) ==
    IF Throws(reply) THEN [threw |-> TRUE]
    ELSE IF reply.shape = "noresult"
    THEN [threw |-> FALSE, path |-> "early", value |-> NullResult]
    ELSE
      LET txInfo == reply.result
      IN IF ~IsSome(txInfo.meta) THEN [threw |-> TRUE]
         ELSE [threw |-> FALSE, path |-> "normal",
               value |-> [type |-> "detail",
                          detail |-> [hash |-> txInfo.hash,
                                      type |-> txInfo.TransactionType,
                                      date |-> DetailDate(txInfo),
                                      amount |-> formatXRPAmount(DetailAmount(txInfo)),
                                      fee |-> formatXRPAmount(txInfo.Fee),
                                      status |-> Get(txInfo.meta).TransactionResult,
                                      sourceTag |-> TagToString(txInfo.SourceTag),
                                      from |-> txInfo.Account,
                                      to |-> txInfo.Destination,
                                      memo |-> DetailMemo(txInfo),
                                      isBitbob |-> DetailIsBitbob(txInfo)]]]

Normalize(k, reply) ==
    IF k = "fetchBalance" THEN NormalizeBalance(reply)
    ELSE IF k = "fetchTransactions" THEN NormalizeTransactions(reply)
    ELSE NormalizeDetails(reply)

----------------------------------------------------------------------------
(* Sample ledger data *)

\* Dashboard.tsx line 62
demoAddress == "rHNTXD6a7VfFzQK9bNMkX4kYD8nLjhgb32"

\* A second classic address (the genesis account).
otherAddress == "rHb9CJAWyB4rj91VRWn96DkukG4bwdtyTh"

\* validateXRPLAddress: isValidClassicAddress holds of the base58check
\* encodings of account ids; of the strings used here these are the two.
validateXRPLAddress(address) == address \in {demoAddress, otherAddress}

Hashes == {"H1"}

Kinds == {"fetchBalance", "fetchTransactions", "fetchTransactionDetails"}

Command(k) ==
    IF k = "fetchBalance" THEN "account_info"
    ELSE IF k = "fetchTransactions" THEN "account_tx"
    ELSE "tx"

\* The arguments of the direct invocations.
Args(k) == IF k = "fetchTransactionDetails" THEN Hashes ELSE {demoAddress}

PaymentTx(account, destination) ==
    [Account |-> Some(account), Destination |-> Some(destination),
     TransactionType |-> Some("Payment"), Amount |-> Drops(12345678),
     DeliverMax |-> NoAmount, Fee |-> Drops(12), SourceTag |-> None,
     Memos |-> None, date |-> Some(1000)]

OfferTx(account) ==
    [Account |-> Some(account), Destination |-> None,
     TransactionType |-> Some("OfferCreate"), Amount |-> NoAmount,
     DeliverMax |-> NoAmount, Fee |-> Drops(10), SourceTag |-> None,
     Memos |-> None, date |-> Some(2000)]

SuccessMeta == [TransactionResult |-> Some("tesSUCCESS"), delivered_amount |-> NoAmount]

Entry(hash, txJson, meta) ==
    [null |-> FALSE, hash |-> hash, tx_json |-> txJson, tx |-> None, meta |-> meta,
     close_time_iso |-> None]

NullEntry == [null |-> TRUE]

\* The history a node holds for an account: a payment and an offer.
LedgerHistory(account) ==
    <<Entry(Some("H1"), Some(PaymentTx(account, otherAddress)), Some(SuccessMeta)),
      Entry(Some("H2"), Some(OfferTx(account)), Some(SuccessMeta))>>

AccountTxReplies(account) ==
    {NullReply,
     [shape |-> "result", transactions |-> None],
     [shape |-> "result", transactions |-> Some(LedgerHistory(account))],
     [shape |-> "result",
      transactions |-> Some(<<Entry(None, Some(PaymentTx(account, otherAddress)), Some(SuccessMeta)),
                              NullEntry>>)]}

AccountInfoReplies(account) ==
    {NullReply,
     [shape |-> "result", account_data |-> None],
     [shape |-> "result",
      account_data |-> Some([Account |-> account, Balance |-> 5000000, OwnerCount |-> None])],
     [shape |-> "result",
      account_data |-> Some([Account |-> account, Balance |-> 25500000, OwnerCount |-> Some(2)])]}

TxInfo(hash, meta) ==
    [hash |-> Some(hash), TransactionType |-> Some("Payment"), date |-> Some(1000),
     close_time_iso |-> None, Amount |-> Drops(12345678), DeliverMax |-> NoAmount,
     Fee |-> Drops(12), meta |-> meta, SourceTag |-> None,
     Account |-> Some(otherAddress), Destination |-> Some(demoAddress),
     Memos |-> None]

TxReplies(hash) ==
    {NullReply,
     NoResultReply,
     [shape |-> "result", result |-> TxInfo(hash, None)],
     [shape |-> "result", result |-> TxInfo(hash, Some(SuccessMeta))]}

Replies(k, a) ==
    IF k = "fetchBalance" THEN AccountInfoReplies(a)
    ELSE IF k = "fetchTransactions" THEN AccountTxReplies(a)
    ELSE TxReplies(a)

----------------------------------------------------------------------------
(* The endpoint pool and getClient *)

\* XRPL_SERVERS: entry i of the list is named i.
XRPL_SERVERS(n) == [i \in 1..n |-> i]

Range(f) == {f[i] : i \in DOMAIN f}

\* A traversal order that draws every position at random from the list.
DrawnWithReplacement(list) == [1..Len(list) -> Range(list)]

\* [...XRPL_SERVERS].sort(() => Math.random() - 0.5): any permutation of the list.
Shuffles(list) ==
    {[i \in 1..Len(list) |-> list[p[i]]] : p \in Permutations(1..Len(list))}

\* new Client(server), before connect() settles
NewClient(server) ==
    [server |-> server, state |-> "connecting", requests |-> <<>>, disconnects |-> <<>>]

\* A reference to a Client object: <<the call whose getClient created it, its
\* position among that call's clients>>.
Deref(cls, ref) == cls[ref[1]][ref[2]]

SetState(cls, ref, st) == [cls EXCEPT ![ref[1]][ref[2]].state = st]

\* The Client created in the first iteration of the loop.
FirstCreatedClient(c, ref) == <<c, 1>>

\* getClient returns the Client whose connect() resolved (return client).
ConnectedClient(c, ref) == ref

\* One variable shared by every invocation.
SharedClientSlot(c) == 1

\* `let client = null` is local to each invocation of a facade operation.
ClientSlot(c) == c

----------------------------------------------------------------------------
(* The facade operations: fetchBalance, fetchTransactions and              *)
(* fetchTransactionDetails share one shape,                                *)
(*   let client = null;                                                    *)
(*   try { client = await getClient(); ... await client.request(..); ... } *)
(*   catch { return <default> } finally { if (client) await client.disconnect() } *)

Init ==
    /\ pc = [c \in Calls |-> "idle"]
    /\ kind = [c \in Calls |-> "none"]
    /\ arg = [c \in Calls |-> ""]
    /\ shuffled = [c \in Calls |-> <<>>]
    /\ clients = [c \in Calls |-> <<>>]
    /\ client = [c \in Calls |-> None]
    /\ pending = [c \in Calls |-> None]
    /\ response = [c \in Calls |-> None]
    /\ result = [c \in Calls |-> NoResult]
    /\ path = [c \in Calls |-> "none"]
    /\ outcome = [c \in Calls |-> "none"]
    /\ xrpl_debug_response = None
    /\ sessionStorage = [tx |-> [h \in Hashes |-> None], last_accessed_address |-> None]
    /\ page = "index"
    /\ route = None
    /\ loads = [l \in Loads |-> [pc |-> "unused", address |-> "", consoleOutput |-> None]]
    /\ ui = [transactions |-> <<>>, rawResponse |-> None, balance |-> ZeroBalance,
             loading |-> TRUE]
    /\ txPage = [hash |-> None, state |-> None, transaction |-> None, loading |-> TRUE,
                 error |-> None, call |-> None, source |-> "none", visits |-> 0,
                 hits |-> 0]
    /\ multi = [pc |-> "idle", address |-> "", servers |-> <<>>, i |-> 0,
                clients |-> <<>>, transactions |-> <<>>, succeeded |-> FALSE,
                after |-> "none", outcome |-> "none", result |-> <<>>]

\* A finally block that releases the client only when the try block completed.
FinishOnSuccessOnly(c, res, p, cv, cls) ==
    /\ client' = cv
    /\ result' = [result EXCEPT ![c] = res]
    /\ path' = [path EXCEPT ![c] = p]
    /\ IF cv[ClientSlot(c)] # None /\ p # "catch"
       THEN LET target == cv[ClientSlot(c)]
            IN /\ clients' = [cls EXCEPT ![target[1]][target[2]].state = "closing",
                                         ![target[1]][target[2]].disconnects = Append(@, c)]
               /\ pending' = [pending EXCEPT ![c] = target]
               /\ pc' = [pc EXCEPT ![c] = "disconnecting"]
               /\ outcome' = outcome
       ELSE /\ clients' = cls
            /\ pending' = [pending EXCEPT ![c] = None]
            /\ pc' = [pc EXCEPT ![c] = "done"]
            /\ outcome' = [outcome EXCEPT ![c] = "returned"]

\* A finally block without the null check: client.disconnect() on null throws.
FinishUnguarded(c, res, p, cv, cls) ==
    /\ client' = cv
    /\ path' = [path EXCEPT ![c] = p]
    /\ IF cv[ClientSlot(c)] # None
       THEN LET target == cv[ClientSlot(c)]
            IN /\ clients' = [cls EXCEPT ![target[1]][target[2]].state = "closing",
                                         ![target[1]][target[2]].disconnects = Append(@, c)]
               /\ pending' = [pending EXCEPT ![c] = target]
               /\ pc' = [pc EXCEPT ![c] = "disconnecting"]
               /\ result' = [result EXCEPT ![c] = res]
               /\ outcome' = outcome
       ELSE /\ clients' = cls
            /\ pending' = [pending EXCEPT ![c] = None]
            /\ pc' = [pc EXCEPT ![c] = "done"]
            /\ result' = [result EXCEPT ![c] = NoResult]
            /\ outcome' = [outcome EXCEPT ![c] = "rejected"]

(* The end of the try/catch with return value res, reached on path p       *)
(* ("normal", "early" or "catch"), and the finally block: if (client)      *)
(* await client.disconnect().  cv and cls are the client variable and the  *)
(* Client objects as this run has left them.                               *)
Finish(c, res, p, cv, cls) ==
    /\ client' = cv
    /\ result' = [result EXCEPT ![c] = res]
    /\ path' = [path EXCEPT ![c] = p]
    /\ IF cv[ClientSlot(c)] # None
       THEN LET target == cv[ClientSlot(c)]
            IN /\ clients' = [cls EXCEPT ![target[1]][target[2]].state = "closing",
                                         ![target[1]][target[2]].disconnects = Append(@, c)]
               /\ pending' = [pending EXCEPT ![c] = target]
               /\ pc' = [pc EXCEPT ![c] = "disconnecting"]
               /\ outcome' = outcome
       ELSE /\ clients' = cls
            /\ pending' = [pending EXCEPT ![c] = None]
            /\ pc' = [pc EXCEPT ![c] = "done"]
            /\ outcome' = [outcome EXCEPT ![c] = "returned"]

(* await client.request({command, ...}) on the client variable's Client;   *)
(* on a null client the call throws inside the try block.                  *)
IssueRequest(c, cv, cls) ==
    IF cv[ClientSlot(c)] = None
    THEN Finish(c, DefaultResult(kind[c]), "catch", cv, cls)
    ELSE LET target == cv[ClientSlot(c)]
             req == [by |-> c, command |-> Command(kind[c]), arg |-> arg[c]]
         IN /\ client' = cv
            /\ clients' = [cls EXCEPT ![target[1]][target[2]].requests = Append(@, req)]
            /\ pending' = [pending EXCEPT ![c] = target]
            /\ pc' = [pc EXCEPT ![c] = "requesting"]
            /\ UNCHANGED <<result, path, outcome>>

(* A caller invokes operation k with argument a: client = null, getClient  *)
(* shuffles the pool, creates the first Client and awaits its connect().   *)
Invoke(c, k, a, pool) ==
    /\ pc[c] = "idle"
    /\ kind' = [kind EXCEPT ![c] = k]
    /\ arg' = [arg EXCEPT ![c] = a]
    /\ client' = [client EXCEPT ![ClientSlot(c)] = None]
    /\ \E order \in Shuffles(pool) :
          /\ shuffled' = [shuffled EXCEPT ![c] = order]
          /\ clients' = [clients EXCEPT ![c] = <<NewClient(order[1])>>]
    /\ pending' = [pending EXCEPT ![c] = <<c, 1>>]
    /\ pc' = [pc EXCEPT ![c] = "connecting"]
    /\ UNCHANGED <<response, result, path, outcome, xrpl_debug_response, sessionStorage>>

(* connect() resolves: getClient returns this Client, the facade assigns   *)
(* it to client; fetchTransactions then awaits delay(1500), the other two  *)
(* issue their request.                                                    *)
ConnectResolve(c) ==
    /\ pc[c] = "connecting"
    /\ LET ref == pending[c]
           cls == SetState(clients, ref, "open")
           cv == [client EXCEPT ![ClientSlot(c)] = ConnectedClient(c, ref)]
       IN /\ shuffled' = [shuffled EXCEPT ![c] = <<>>]
          /\ IF kind[c] = "fetchTransactions"
             THEN /\ pc' = [pc EXCEPT ![c] = "delaying"]
                  /\ clients' = cls
                  /\ client' = cv
                  /\ pending' = [pending EXCEPT ![c] = None]
                  /\ UNCHANGED <<result, path, outcome>>
             ELSE IssueRequest(c, cv, cls)
    /\ UNCHANGED <<kind, arg, response, xrpl_debug_response, sessionStorage, uiVars>>

(* connect() rejects: getClient logs and continues with the next server of *)
(* shuffledServers; after the last one it throws 'Could not connect to any *)
(* XRPL server', which the facade catches.                                 *)
ConnectReject(c) ==
    /\ pc[c] = "connecting"
    /\ LET ref == pending[c]
           cls == SetState(clients, ref, "failed")
           n == Len(clients[c])
       IN IF n < Len(shuffled[c])
          THEN /\ clients' = [cls EXCEPT ![c] = Append(@, NewClient(shuffled[c][n + 1]))]
               /\ pending' = [pending EXCEPT ![c] = <<c, n + 1>>]
               /\ UNCHANGED <<pc, shuffled, client, result, path, outcome>>
          ELSE /\ shuffled' = [shuffled EXCEPT ![c] = <<>>]
               /\ Finish(c, DefaultResult(kind[c]), "catch", client, cls)
    /\ UNCHANGED <<kind, arg, response, xrpl_debug_response, sessionStorage, uiVars>>

\* fetchTransactions: delay(1500) elapses and the account_tx request is issued.
DelayElapsed(c) ==
    /\ pc[c] = "delaying"
    /\ IssueRequest(c, client, clients)
    /\ UNCHANGED <<kind, arg, shuffled, response, xrpl_debug_response, sessionStorage,
                   uiVars>>

\* sessionStorage.setItem(`tx_${hash}`, ...); setItem('last_accessed_address', txInfo.Account)
StoreDetail(store, hash, value, reply) ==
    [tx |-> [store.tx EXCEPT ![hash] = Some(value.detail)],
     last_accessed_address |->
        Some(IF IsSome(reply.result.Account) THEN Get(reply.result.Account)
             ELSE "undefined")]

(* The request resolves with a reply: fetchTransactions stores it in       *)
(* window.__xrpl_debug_response, the reply is normalized (an exception     *)
(* goes to the catch block), fetchTransactionDetails writes the record to  *)
(* sessionStorage, and the finally block runs.                             *)
RequestResolve(c, reply) ==
    /\ pc[c] = "requesting"
    /\ LET resp == [id |-> c, body |-> reply]
           n == Normalize(kind[c], reply)
       IN /\ response' = [response EXCEPT ![c] = Some(resp)]
          /\ xrpl_debug_response' =
                IF kind[c] = "fetchTransactions" THEN Some(resp) ELSE xrpl_debug_response
          /\ IF n.threw
             THEN /\ Finish(c, DefaultResult(kind[c]), "catch", client, clients)
                  /\ sessionStorage' = sessionStorage
             ELSE /\ Finish(c, n.value, n.path, client, clients)
                  /\ sessionStorage' =
                        IF kind[c] = "fetchTransactionDetails" /\ n.path = "normal"
                        THEN StoreDetail(sessionStorage, arg[c], n.value, reply)
                        ELSE sessionStorage
    /\ UNCHANGED <<kind, arg, shuffled, uiVars>>

\* The request rejects: the catch block returns the default.
RequestReject(c) ==
    /\ pc[c] = "requesting"
    /\ Finish(c, DefaultResult(kind[c]), "catch", client, clients)
    /\ UNCHANGED <<kind, arg, shuffled, response, xrpl_debug_response, sessionStorage,
                   uiVars>>

\* disconnect() resolves: the operation returns its value.
DisconnectResolve(c) ==
    /\ pc[c] = "disconnecting"
    /\ clients' = SetState(clients, pending[c], "closed")
    /\ pending' = [pending EXCEPT ![c] = None]
    /\ pc' = [pc EXCEPT ![c] = "done"]
    /\ outcome' = [outcome EXCEPT ![c] = "returned"]
    /\ UNCHANGED <<kind, arg, shuffled, client, response, result, path,
                   xrpl_debug_response, sessionStorage, uiVars>>

(* disconnect() rejects inside the finally block: the rejection replaces   *)
(* the return value and the operation's promise rejects; the session was   *)
(* not closed.                                                             *)
DisconnectReject(c) ==
    /\ pc[c] = "disconnecting"
    /\ clients' = SetState(clients, pending[c], "open")
    /\ pending' = [pending EXCEPT ![c] = None]
    /\ pc' = [pc EXCEPT ![c] = "done"]
    /\ outcome' = [outcome EXCEPT ![c] = "rejected"]
    /\ result' = [result EXCEPT ![c] = NoResult]
    /\ UNCHANGED <<kind, arg, shuffled, client, response, path,
                   xrpl_debug_response, sessionStorage, uiVars>>

\* The steps of the facade calls in flight.
FacadeStep ==
    \E c \in Calls :
        \/ ConnectResolve(c)
        \/ ConnectReject(c)
        \/ DelayElapsed(c)
        \/ RequestReject(c)
        \/ DisconnectResolve(c)
        \/ DisconnectReject(c)

\* A caller invokes a facade operation directly.
InvokeDirect ==
    \E c \in DirectCalls : \E k \in Kinds : \E a \in Args(k) :
        /\ Invoke(c, k, a, XRPL_SERVERS(PoolSize))
        /\ UNCHANGED uiVars

\* A node answers a request with any of the replies.
AnyReply == \E c \in Calls : \E reply \in Replies(kind[c], arg[c]) : RequestResolve(c, reply)

Next == InvokeDirect \/ FacadeStep \/ AnyReply

Spec == Init /\ [][Next]_vars

----------------------------------------------------------------------------
(* The pages: Index (handleSubmit) and Dashboard (loadData, handleSearch,  *)
(* handleAddressClick).                                                    *)

\* What a user types into the address fields.
FormInputs == {"", otherAddress, "notanaddress"}

\* The :address parameter of routes a user visits.
RouteInputs == {"default", otherAddress, "XRPL DEX"}

\* Dashboard.tsx line 69
effectiveAddress(address) ==
    IF address = None \/ Get(address) = "" \/ Get(address) = "default"
    THEN demoAddress
    ELSE Get(address)

\* The drops an account holds on the ledger.
LedgerBalance(a) == IF a = demoAddress THEN 25500000 ELSE 40000000

\* What a node answers for an address: the account's data.
DashReplies(k, a) ==
    IF ~validateXRPLAddress(a) THEN {}
    ELSE IF k = "fetchTransactions"
    THEN {[shape |-> "result", transactions |-> Some(LedgerHistory(a))]}
    ELSE {[shape |-> "result",
           account_data |-> Some([Account |-> a, Balance |-> LedgerBalance(a),
                                  OwnerCount |-> Some(2)])]}

\* The runs of loadData not yet started.
UnusedLoads == {l \in Loads : loads[l].pc = "unused"}

(* Promise.all([fetchTransactions(a), fetchBalance(a)]): both operations   *)
(* run up to the first await of their getClient.                           *)
InvokePair(t, b, a, pool) ==
    /\ pc[t] = "idle" /\ pc[b] = "idle"
    /\ kind' = [kind EXCEPT ![t] = "fetchTransactions", ![b] = "fetchBalance"]
    /\ arg' = [arg EXCEPT ![t] = a, ![b] = a]
    /\ client' = [client EXCEPT ![ClientSlot(t)] = None, ![ClientSlot(b)] = None]
    /\ \E order1, order2 \in Shuffles(pool) :
          /\ shuffled' = [shuffled EXCEPT ![t] = order1, ![b] = order2]
          /\ clients' = [clients EXCEPT ![t] = <<NewClient(order1[1])>>,
                                        ![b] = <<NewClient(order2[1])>>]
    /\ pending' = [pending EXCEPT ![t] = <<t, 1>>, ![b] = <<b, 1>>]
    /\ pc' = [pc EXCEPT ![t] = "connecting", ![b] = "connecting"]
    /\ UNCHANGED <<response, result, path, outcome, xrpl_debug_response, sessionStorage>>

(* navigate(`/dashboard/${address}`): the Dashboard renders with the new   *)
(* parameter; when effectiveAddress changed (or the page mounts) the effect*)
(* runs loadData, which sets loading and starts both fetches.              *)
Navigate(address) ==
    LET new == effectiveAddress(Some(address))
        rerun == page # "dashboard" \/ new # effectiveAddress(route)
    IN /\ route' = Some(address)
       /\ page' = "dashboard"
       /\ IF rerun
          THEN /\ UnusedLoads # {}
               /\ LET l == CHOOSE x \in UnusedLoads : \A y \in UnusedLoads : x <= y
                  IN /\ InvokePair(TxCall(l), BalCall(l), new, XRPL_SERVERS(DashPoolSize))
                     /\ loads' = [loads EXCEPT ![l] = [pc |-> "awaiting", address |-> new,
                                                       consoleOutput |-> None]]
               /\ ui' = [ui EXCEPT !.loading = TRUE]
          ELSE UNCHANGED <<facadeVars, loads, ui>>
       /\ UNCHANGED <<txPage, multi>>

\* Index.tsx handleSubmit: an empty or invalid address only shows a toast.
handleSubmit(address) ==
    /\ page = "index"
    /\ IF address # "" /\ validateXRPLAddress(address)
       THEN Navigate(address)
       ELSE UNCHANGED vars

\* Dashboard.tsx handleSearch; the form is rendered once loading is false.
handleSearch(searchAddress) ==
    /\ page = "dashboard" /\ ~ui.loading
    /\ IF searchAddress # "" /\ validateXRPLAddress(searchAddress)
       THEN Navigate(searchAddress)
       ELSE UNCHANGED vars

\* Dashboard.tsx handleAddressClick on the from or to button of a row.
handleAddressClick(clickedAddress) ==
    /\ page = "dashboard" /\ ~ui.loading
    /\ \E i \in DOMAIN ui.transactions :
          clickedAddress \in {Get(ui.transactions[i].from), Get(ui.transactions[i].to)}
    /\ Navigate(clickedAddress)

\* The router shows /dashboard/:address (a link, the history, the redirect).
RouteChange(address) == Navigate(address)

\* The promise of a facade call has settled.
Settled(c) == pc[c] = "done"

\* Promise.all has resolved or rejected and loadData has not yet resumed.
Resumable(l) ==
    /\ loads[l].pc = "awaiting"
    /\ \/ Settled(TxCall(l)) /\ Settled(BalCall(l))
       \/ \E c \in {TxCall(l), BalCall(l)} : Settled(c) /\ outcome[c] = "rejected"

\* if (consoleOutput)
TruthyReply(o) == IsSome(o) /\ Get(o).body # NullReply

(* loadData after the await (Dashboard.tsx lines 105-121): with both       *)
(* results it reads window.__xrpl_debug_response into rawResponse and sets *)
(* transactions and balance; on a rejection it only shows a toast; either  *)
(* way loading becomes false.                                              *)
LoadResume(l) ==
    /\ Resumable(l)
    /\ IF \E c \in {TxCall(l), BalCall(l)} : Settled(c) /\ outcome[c] = "rejected"
       THEN /\ loads' = [loads EXCEPT ![l].pc = "failed"]
            /\ ui' = [ui EXCEPT !.loading = FALSE]
       ELSE LET consoleOutput == xrpl_debug_response
            IN /\ loads' = [loads EXCEPT ![l].pc = "shown",
                                         ![l].consoleOutput = consoleOutput]
               /\ ui' = [transactions |-> result[TxCall(l)].items,
                         rawResponse |-> IF TruthyReply(consoleOutput) THEN consoleOutput
                                         ELSE ui.rawResponse,
                         balance |-> result[BalCall(l)],
                         loading |-> FALSE]
    /\ UNCHANGED <<facadeVars, page, route, txPage, multi>>

\* loadData resumes in the same turn of the event loop as the settlement.
Resume == \E l \in Loads : LoadResume(l)

\* A continuation is waiting to run.
MicrotaskPending == \E l \in Loads : Resumable(l)

Submit == \E a \in FormInputs : handleSubmit(a)

Search == \E a \in FormInputs : ~MicrotaskPending /\ handleSearch(a)

AddressClick ==
    \E a \in {demoAddress, otherAddress, "XRPL DEX", "Unknown"} :
        ~MicrotaskPending /\ handleAddressClick(a)

Route == \E a \in RouteInputs : ~MicrotaskPending /\ RouteChange(a)

\* The steps of the facade calls the Dashboard started.
DashStep ==
    \E c \in Calls :
        \/ ~MicrotaskPending /\ ConnectResolve(c)
        \/ ~MicrotaskPending /\ ConnectReject(c)
        \/ ~MicrotaskPending /\ DelayElapsed(c)
        \/ ~MicrotaskPending /\ RequestReject(c)
        \/ ~MicrotaskPending /\ DisconnectResolve(c)
        \/ ~MicrotaskPending /\ DisconnectReject(c)

DashReply ==
    \E c \in Calls : \E reply \in DashReplies(kind[c], arg[c]) :
        ~MicrotaskPending /\ RequestResolve(c, reply)

NextDash == Resume \/ Submit \/ Search \/ AddressClick \/ Route \/ DashStep \/ DashReply

SpecDash == Init /\ [][NextDash]_vars

----------------------------------------------------------------------------
(* Normalization: fetchTransactions and fetchTransactionDetails applied to *)
(* replies that vary one group of fields at a time.                        *)

\* The raw amounts a field can hold.
DeliveredSamples == {NoAmount, Drops(3000000), ValueObject(3500000), TextAmount}

DeliverMaxSamples == {NoAmount, Drops(2000000)}

AmountSamples == {NoAmount, Drops(1000000), ValueObject(1500000)}

\* close_time_iso and date of a reply; the two disagree when both are present.
IsoSamples == {None, Some(Iso(5000))}

DateSamples == {None, Some(0), Some(1000)}

\* SourceTag as a number or as a string
NumberTag(n) == [t |-> "number", v |-> n]

StringTag(n) == [t |-> "string", v |-> n]

TagSamples == {None, Some(NumberTag(BitbobTag)), Some(StringTag(BitbobTag)), Some(NumberTag(7))}

\* MemoData '426974426F6221' ('BitBob!') and '4869' ('Hi') as hexadecimal digits
BitBobMemoHex == <<4, 2, 6, 9, 7, 4, 4, 2, 6, 15, 6, 2, 2, 1>>

OtherMemoHex == <<4, 8, 6, 9>>

\* The hexadecimal encoding of a text given by its character codes.
RECURSIVE AsciiToHex(_)
AsciiToHex(text) ==
    IF Len(text) = 0 THEN <<>>
    ELSE <<text[1] \div 16, text[1] % 16>> \o AsciiToHex(Tail(text))

\* 'Hi', 'BitBob!' and 'z' as character codes
MemoTexts == {<<72, 105>>, <<66, 105, 116, 66, 111, 98, 33>>, <<122>>}

\* Memos: absent, an empty list, a first memo without MemoData or with an
\* empty one, and a first memo carrying the encoding of a text.
MemoSamples ==
    {None, Some(<<>>), Some(<<None>>), Some(<<Some(<<>>)>>),
     Some(<<Some(BitBobMemoHex)>>), Some(<<Some(OtherMemoHex)>>)}
    \cup {Some(<<Some(AsciiToHex(t))>>) : t \in MemoTexts}

DestinationSamples == {None, Some(""), Some(otherAddress)}

TypeSamples == {None, Some("Payment"), Some("OfferCreate")}

FeeSamples == {NoAmount, Drops(0), Drops(12), Drops(999999), Drops(1000000), Drops(12345678)}

BalanceSamples == {0, 5000000, 10000000, 14000001, 25500000}

OwnerCountSamples == {None, Some(0), Some(2)}

HashSamples == {None, Some(""), Some("H1")}

AccountSamples == {None, Some(""), Some(demoAddress)}

StatusSamples == {None, Some("tesSUCCESS")}

\* The instruction fields of a sample payment.
SampleTx == PaymentTx(demoAddress, otherAddress)

\* The flat shape carries the hash inside the envelope.
FlatTx(txJson, hash) ==
    [Account |-> txJson.Account, Destination |-> txJson.Destination,
     TransactionType |-> txJson.TransactionType, Amount |-> txJson.Amount,
     DeliverMax |-> txJson.DeliverMax, Fee |-> txJson.Fee, SourceTag |-> txJson.SourceTag,
     Memos |-> txJson.Memos, date |-> txJson.date, hash |-> hash]

\* An entry of the history in the nested shape.
NestedEntry(hash, txJson, meta, iso) ==
    [null |-> FALSE, hash |-> hash, tx_json |-> Some(txJson), tx |-> None, meta |-> meta,
     close_time_iso |-> iso]

\* An entry in the flat shape.
FlatEntry(hash, txJson, meta, iso) ==
    [null |-> FALSE, hash |-> None, tx_json |-> None, tx |-> Some(FlatTx(txJson, hash)),
     meta |-> meta, close_time_iso |-> iso]

\* An entry carrying both shapes, which name different senders.
BothEntry(hash, txJson, meta, iso) ==
    [null |-> FALSE, hash |-> hash, tx_json |-> Some(txJson),
     tx |-> Some(FlatTx([txJson EXCEPT !.Account = Some(otherAddress)], hash)),
     meta |-> meta, close_time_iso |-> iso]

\* An entry without envelope.
BareEntry(hash, txJson, meta, iso) ==
    [null |-> FALSE, hash |-> hash, tx_json |-> None, tx |-> None, meta |-> meta,
     close_time_iso |-> iso]

AmountEntries ==
    {NestedEntry(Some("H1"), [SampleTx EXCEPT !.Amount = a, !.DeliverMax = m],
                 Some([SuccessMeta EXCEPT !.delivered_amount = d]), None) :
        a \in AmountSamples, m \in DeliverMaxSamples, d \in DeliveredSamples}

TimeEntries ==
    {NestedEntry(Some("H1"), [SampleTx EXCEPT !.date = d], Some(SuccessMeta), i) :
        d \in DateSamples, i \in IsoSamples}

ClassEntries ==
    {NestedEntry(Some("H1"), [SampleTx EXCEPT !.SourceTag = t, !.Memos = m],
                 Some(SuccessMeta), None) :
        t \in TagSamples, m \in MemoSamples}

ViabilityEntries ==
    UNION {{NestedEntry(h, [SampleTx EXCEPT !.Account = a], meta, None),
            FlatEntry(h, [SampleTx EXCEPT !.Account = a], meta, None),
            BothEntry(h, [SampleTx EXCEPT !.Account = a], meta, None),
            BareEntry(h, [SampleTx EXCEPT !.Account = a], meta, None)} :
        h \in HashSamples, a \in AccountSamples,
        meta \in {None} \cup {Some([SuccessMeta EXCEPT !.TransactionResult = r]) :
                                r \in StatusSamples}}

DestinationEntries ==
    {NestedEntry(Some("H1"), [SampleTx EXCEPT !.Destination = d, !.TransactionType = t],
                 Some(SuccessMeta), None) :
        d \in DestinationSamples, t \in TypeSamples}

FeeEntries ==
    {NestedEntry(Some("H1"), [SampleTx EXCEPT !.Fee = f], Some(SuccessMeta), None) :
        f \in FeeSamples}

\* Two entries with the same hash, told apart by their sender.
TwinA == NestedEntry(Some("H1"), SampleTx, Some(SuccessMeta), None)

TwinB ==
    NestedEntry(Some("H1"), [SampleTx EXCEPT !.Account = Some(otherAddress)],
                Some(SuccessMeta), None)

\* An entry the viability checks drop.
DroppedEntry == BareEntry(Some("H3"), SampleTx, Some(SuccessMeta), None)

\* A well-formed entry with a hash of its own.
GoodEntry == NestedEntry(Some("H2"), OfferTx(demoAddress), Some(SuccessMeta), None)

\* The histories: one entry, or an entry followed by a well-formed one.
NormHistories ==
    {<<e>> : e \in AmountEntries \cup TimeEntries \cup ClassEntries \cup ViabilityEntries
                   \cup DestinationEntries \cup FeeEntries}
    \cup {<<e, GoodEntry>> : e \in ViabilityEntries}
    \cup {<<TwinA, TwinB>>, <<TwinB, TwinA>>, <<TwinB, DroppedEntry, TwinA>>,
          <<TwinA, GoodEntry, TwinA>>}

NormTxInfos ==
    LET base == TxInfo("H1", Some(SuccessMeta))
    IN {[base EXCEPT !.Amount = a, !.DeliverMax = m,
                     !.meta = Some([SuccessMeta EXCEPT !.delivered_amount = d])] :
            a \in AmountSamples, m \in DeliverMaxSamples, d \in DeliveredSamples}
       \cup {[base EXCEPT !.date = d, !.close_time_iso = i] :
                d \in DateSamples, i \in IsoSamples}
       \cup {[base EXCEPT !.SourceTag = t, !.Memos = m] :
                t \in TagSamples, m \in MemoSamples}
       \cup {[base EXCEPT !.Destination = d, !.TransactionType = t] :
                d \in DestinationSamples, t \in TypeSamples}
       \cup {[base EXCEPT !.Fee = f] : f \in FeeSamples}
       \cup {[base EXCEPT !.hash = h, !.Account = a, !.meta = meta] :
                h \in HashSamples, a \in AccountSamples,
                meta \in {None} \cup {Some([SuccessMeta EXCEPT !.TransactionResult = r]) :
                                        r \in StatusSamples}}

NormReplies(k) ==
    IF k = "fetchTransactions"
    THEN {[shape |-> "result", transactions |-> Some(h)] : h \in NormHistories}
    ELSE IF k = "fetchTransactionDetails"
    THEN {[shape |-> "result", result |-> t] : t \in NormTxInfos}
    ELSE {NullReply, [shape |-> "result", account_data |-> None]}
         \cup {[shape |-> "result",
                account_data |-> Some([Account |-> demoAddress, Balance |-> b,
                                       OwnerCount |-> o])] :
                  b \in BalanceSamples, o \in OwnerCountSamples}

\* A caller looks up the history or balance of an account, or a transaction.
InvokeNorm ==
    \E k \in Kinds : \E a \in Args(k) :
        /\ Invoke(1, k, a, XRPL_SERVERS(PoolSize))
        /\ UNCHANGED uiVars

NormReply == \E c \in Calls : \E reply \in NormReplies(kind[c]) : RequestResolve(c, reply)

NextNorm == InvokeNorm \/ FacadeStep \/ NormReply

SpecNorm == Init /\ [][NextNorm]_vars

----------------------------------------------------------------------------
(* The Transaction page (Transaction.tsx) *)

\* a ?? b
Nullish(a, b) == IF IsSome(a) THEN a ELSE b

\* stateTx?.field
StateField(stateTx, field) == IF IsSome(stateTx) THEN Get(stateTx)[field] ELSE None

(* mergeTransaction (Transaction.tsx lines 33-42): from, to and type of    *)
(* the transaction passed in the navigation state come first, then those   *)
(* of the record, then 'Unknown'; every other field is the record's.       *)
mergeTransaction(fetched, stateTx) ==
    [fetched EXCEPT
        !.from = Nullish(StateField(stateTx, "from"), Nullish(fetched.from, Some("Unknown"))),
        !.to = Nullish(StateField(stateTx, "to"), Nullish(fetched.to, Some("Unknown"))),
        !.type = Nullish(StateField(stateTx, "type"), Nullish(fetched.type, Some("Unknown")))]

\* The row of the Dashboard's table a link passes as state={{ transaction: tx }}.
RowOf(txJson) ==
    LET tx == Get(MapEntry(Entry(Some("H1"), Some(txJson), Some(SuccessMeta))))
    IN [from |-> tx.from, to |-> tx.to, type |-> Some(tx.type)]

\* location.state: nothing (the URL was opened directly) or the row clicked.
StateSamples ==
    {None, Some(RowOf(PaymentTx(otherAddress, demoAddress))), Some(RowOf(OfferTx(otherAddress)))}

\* What a node answers to tx: as TxReplies, and an offer, which has no Destination.
PageReplies(hash) ==
    TxReplies(hash)
    \cup {[shape |-> "result",
           result |-> [TxInfo(hash, Some(SuccessMeta)) EXCEPT
                          !.TransactionType = Some("OfferCreate"),
                          !.Destination = None]]}

(* The page is opened at /transaction/:hash with a navigation state: the   *)
(* component mounts and its effect runs loadTransaction (lines 49-86) up   *)
(* to its first await. A cached record is merged and shown at once;        *)
(* otherwise fetchTransactionDetails is called.                            *)
OpenTransaction(hash, stateTx) ==
    /\ txPage.visits < MaxVisits
    /\ txPage.visits = 0 \/ ~txPage.loading
    /\ page' = "transaction"
    /\ LET mounted == [hash |-> Some(hash), state |-> stateTx, transaction |-> None,
                       loading |-> TRUE, error |-> None, call |-> None,
                       source |-> "none", visits |-> txPage.visits + 1,
                       hits |-> txPage.hits]
           cached == sessionStorage.tx[hash]
       IN IF IsSome(cached)
          THEN /\ txPage' = [mounted EXCEPT
                                !.transaction = Some(mergeTransaction(Get(cached), stateTx)),
                                !.loading = FALSE, !.source = "cache",
                                !.hits = txPage.hits + 1]
               /\ UNCHANGED facadeVars
          ELSE \E c \in DirectCalls :
                  /\ \A d \in DirectCalls : pc[d] = "idle" => c <= d
                  /\ Invoke(c, "fetchTransactionDetails", hash, XRPL_SERVERS(PoolSize))
                  /\ txPage' = [mounted EXCEPT !.call = Some(c), !.source = "fetch"]
    /\ UNCHANGED <<route, loads, ui, multi>>

(* loadTransaction after its await (lines 68-84): null shows 'Transaction  *)
(* not found', a record is merged and shown, a rejection shows 'Failed to  *)
(* load transaction details'; loading becomes false.                       *)
TransactionResume ==
    /\ txPage.loading /\ IsSome(txPage.call)
    /\ LET c == Get(txPage.call)
       IN /\ pc[c] = "done"
          /\ txPage' =
                IF outcome[c] = "rejected"
                THEN [txPage EXCEPT !.error = Some("Failed to load transaction details"),
                                    !.loading = FALSE]
                ELSE IF result[c].type = "detail"
                THEN [txPage EXCEPT
                         !.transaction = Some(mergeTransaction(result[c].detail, txPage.state)),
                         !.loading = FALSE]
                ELSE [txPage EXCEPT !.error = Some("Transaction not found"),
                                    !.loading = FALSE]
    /\ UNCHANGED <<facadeVars, page, route, loads, ui, multi>>

OpenPage == \E h \in Hashes : \E st \in StateSamples : OpenTransaction(h, st)

\* The steps of the fetchTransactionDetails calls the page started.
PageStep ==
    \E c \in DirectCalls :
        \/ ConnectResolve(c)
        \/ ConnectReject(c)
        \/ RequestReject(c)
        \/ DisconnectResolve(c)
        \/ DisconnectReject(c)

PageReply == \E c \in DirectCalls : \E reply \in PageReplies(arg[c]) : RequestResolve(c, reply)

NextPage == OpenPage \/ TransactionResume \/ PageStep \/ PageReply

SpecPage == Init /\ [][NextPage]_vars


----------------------------------------------------------------------------
(* The per-server variant of fetchTransactions (Index.tsx lines 345-461) *)

\* A finally block that leaves the client as it is.
KeepClient(cl) == cl

\* finally: if (client) await client.disconnect()
ReleaseClient(cl) ==
    [cl EXCEPT !.state = "closing", !.disconnects = @ + 1]

\* new Client(servers[i])
MultiClient(server) ==
    [server |-> server, state |-> "connecting", wasOpen |-> FALSE, disconnects |-> 0,
     reply |-> None]

\* The amount the variant formats: Amount when a string, Amount.value, else '0'.
MultiAmount(txData) ==
    IF txData.Amount.k \in {"drops", "text"} THEN txData.Amount
    ELSE IF txData.Amount.k = "object" THEN Drops(txData.Amount.value)
    ELSE Drops(0)

(* The record built for an entry that has tx and meta (lines 376-425),     *)
(* with the fallbacks 'Unknown' and 'unknown'.                             *)
MultiMapEntry(tx) ==
    LET txData == Get(tx.tx)
        meta == Get(tx.meta)
        memoData == FirstMemoData(txData.Memos)
        memo == IF IsSome(memoData) THEN Some(hexToAscii(Get(memoData))) ELSE None
    IN [hash |-> IF TruthyStr(txData.hash) THEN Get(txData.hash) ELSE "Unknown",
        type |-> IF IsSome(txData.TransactionType)
                 THEN Get(txData.TransactionType) ELSE "Unknown",
        date |-> IF IsSome(txData.date) /\ Get(txData.date) # 0
                 THEN formatXRPLDate(txData.date) ELSE [k |-> "unknown"],
        amount |-> formatXRPAmount(MultiAmount(txData)),
        fee |-> IF Truthy(txData.Fee) THEN formatXRPAmount(txData.Fee)
                ELSE [whole |-> 0, unit |-> "XRP"],
        status |-> IF IsSome(meta.TransactionResult)
                   THEN Get(meta.TransactionResult) ELSE "unknown",
        sourceTag |-> TagToString(txData.SourceTag),
        from |-> IF IsSome(txData.Account) THEN Get(txData.Account) ELSE "Unknown",
        to |-> IF IsSome(txData.Destination) THEN Get(txData.Destination) ELSE "Unknown",
        memo |-> memo,
        isBitbob |-> IsSome(memo) /\ StartsWith(Get(memo), BitBobPrefix)]

\* The first filter (lines 368-374): the entry has tx and meta.
MultiHasTx(tx) == IsSome(tx.tx) /\ IsSome(tx.meta)

\* The second filter (lines 427-435).
MultiIsValid(r) == r.hash # "Unknown" /\ r.from # "Unknown" /\ r.status # "unknown"

(* The try block after the request (lines 360-435): reading a null reply   *)
(* or a null entry throws; a reply without a transactions array continues  *)
(* with the next server; otherwise the valid records are assigned.         *)
MultiNormalize(reply) ==
    IF reply = NullReply THEN [k |-> "throw"]
    ELSE IF reply.shape = "noresult" \/ ~IsSome(reply.transactions) THEN [k |-> "continue"]
    ELSE LET raw == Get(reply.transactions)
         IN IF \E n \in DOMAIN raw : raw[n].null THEN [k |-> "throw"]
            ELSE LET filtered == SelectSeq(raw, MultiHasTx)
                     mapped == [n \in DOMAIN filtered |-> MultiMapEntry(filtered[n])]
                 IN [k |-> "list", transactions |-> SelectSeq(mapped, MultiIsValid)]

\* The hash of the transaction a server reports: servers are told apart by it.
ServerHash(server) == <<"H1", "H2", "H3", "H4">>[server]

\* What server answers to account_tx.
MultiReplies(server, address) ==
    LET tx == PaymentTx(address, otherAddress)
    IN {NullReply,
        NoResultReply,
        [shape |-> "result", transactions |-> None],
        [shape |-> "result", transactions |-> Some(<<>>)],
        [shape |-> "result", transactions |-> Some(<<NullEntry>>)],
        [shape |-> "result",
         transactions |-> Some(<<NestedEntry(Some(ServerHash(server)), tx,
                                             Some(SuccessMeta), None)>>)],
        [shape |-> "result",
         transactions |-> Some(<<FlatEntry(None, tx, Some(SuccessMeta), None)>>)],
        [shape |-> "result",
         transactions |-> Some(<<FlatEntry(None, tx, Some(SuccessMeta), None),
                                 FlatEntry(Some(ServerHash(server)), tx,
                                           Some(SuccessMeta), None),
                                 FlatEntry(Some(ServerHash(server)),
                                           OfferTx(address), Some(SuccessMeta), None)>>)]}

\* The client of the iteration under way.
MultiCurrent == multi.clients[Len(multi.clients)]

MultiSetCurrent(cl) == [multi.clients EXCEPT ![Len(multi.clients)] = cl]

(* fetchTransactions(address) up to its first await: the loop starts with  *)
(* the first server of the list as it stands, creates a Client and awaits  *)
(* connect().                                                              *)
MultiInvoke(address) ==
    /\ multi.pc = "idle"
    /\ LET servers == XRPL_SERVERS(MultiPoolSize)
       IN multi' = [multi EXCEPT !.pc = "connecting", !.address = address,
                                 !.servers = servers, !.i = 1,
                                 !.clients = <<MultiClient(servers[1])>>,
                                 !.transactions = <<>>, !.succeeded = FALSE]
    /\ UNCHANGED <<facadeVars, page, route, loads, ui, txPage>>

\* connect() resolves: the request is issued.
MultiConnectResolve ==
    /\ multi.pc = "connecting"
    /\ multi' = [multi EXCEPT
                    !.pc = "requesting",
                    !.clients = MultiSetCurrent([MultiCurrent EXCEPT !.state = "open",
                                                                    !.wasOpen = TRUE])]
    /\ UNCHANGED <<facadeVars, page, route, loads, ui, txPage>>

\* connect() rejects: the catch block waits one second.
MultiConnectReject ==
    /\ multi.pc = "connecting"
    /\ multi' = [multi EXCEPT
                    !.pc = "waiting",
                    !.clients = MultiSetCurrent([MultiCurrent EXCEPT !.state = "failed"])]
    /\ UNCHANGED <<facadeVars, page, route, loads, ui, txPage>>

(* The finally block of the iteration; after it the loop is left (break),  *)
(* or goes on with the next server.                                        *)
MultiFinally(m, after) ==
    [m EXCEPT !.pc = "disconnecting", !.after = after,
              !.clients = [m.clients EXCEPT
                              ![Len(m.clients)] = ReleaseClient(m.clients[Len(m.clients)])]]

\* The request resolves with a reply.
MultiRequestResolve(reply) ==
    /\ multi.pc = "requesting"
    /\ LET n == MultiNormalize(reply)
           got == [multi EXCEPT
                      !.clients = MultiSetCurrent([MultiCurrent EXCEPT !.reply = Some(reply)])]
       IN multi' =
             IF n.k = "throw" THEN [got EXCEPT !.pc = "waiting"]
             ELSE IF n.k = "continue" THEN MultiFinally(got, "next")
             ELSE IF Len(n.transactions) > 0
             THEN MultiFinally([got EXCEPT !.transactions = n.transactions,
                                           !.succeeded = TRUE], "break")
             ELSE MultiFinally([got EXCEPT !.transactions = n.transactions], "next")
    /\ UNCHANGED <<facadeVars, page, route, loads, ui, txPage>>

\* The request rejects: the catch block waits one second.
MultiRequestReject ==
    /\ multi.pc = "requesting"
    /\ multi' = [multi EXCEPT !.pc = "waiting"]
    /\ UNCHANGED <<facadeVars, page, route, loads, ui, txPage>>

\* The second of the catch block has passed: continue, through finally.
MultiDelayElapsed ==
    /\ multi.pc = "waiting"
    /\ multi' = MultiFinally(multi, "next")
    /\ UNCHANGED <<facadeVars, page, route, loads, ui, txPage>>

(* disconnect() resolves. After a break, or when the loop condition        *)
(* i < servers.length && !succeeded fails, the function returns            *)
(* transactions, or [] when no server succeeded; otherwise the next        *)
(* iteration creates its Client.                                           *)
MultiDisconnectResolve ==
    /\ multi.pc = "disconnecting"
    /\ LET closed == [multi EXCEPT
                         !.clients = MultiSetCurrent([MultiCurrent EXCEPT !.state = "closed"])]
       IN multi' =
             IF multi.after = "break" \/ multi.i + 1 > Len(multi.servers) \/ multi.succeeded
             THEN [closed EXCEPT !.pc = "done", !.outcome = "returned",
                                 !.result = IF multi.succeeded THEN multi.transactions
                                            ELSE <<>>]
             ELSE [closed EXCEPT !.pc = "connecting", !.i = multi.i + 1,
                                 !.clients = Append(@, MultiClient(multi.servers[multi.i + 1]))]
    /\ UNCHANGED <<facadeVars, page, route, loads, ui, txPage>>

(* disconnect() rejects inside finally: the rejection leaves the function, *)
(* whose promise rejects; the client is as it was before the call.         *)
MultiDisconnectReject ==
    /\ multi.pc = "disconnecting"
    /\ multi' = [multi EXCEPT
                    !.pc = "done", !.outcome = "rejected",
                    !.clients = MultiSetCurrent(
                        [MultiCurrent EXCEPT
                            !.state = IF MultiCurrent.wasOpen THEN "open" ELSE "failed"])]
    /\ UNCHANGED <<facadeVars, page, route, loads, ui, txPage>>

MultiCall == \E a \in {demoAddress} : MultiInvoke(a)

MultiReply ==
    /\ multi.pc = "requesting"
    /\ \E reply \in MultiReplies(MultiCurrent.server, multi.address) :
          MultiRequestResolve(reply)

NextMulti ==
    \/ MultiCall
    \/ MultiConnectResolve
    \/ MultiConnectReject
    \/ MultiReply
    \/ MultiRequestReject
    \/ MultiDelayElapsed
    \/ MultiDisconnectResolve
    \/ MultiDisconnectReject

SpecMulti == Init /\ [][NextMulti]_vars


(* Every connect, delay, request and disconnect eventually settles.        *)
FairSpec ==
    /\ Spec
    /\ \A c \in Calls :
        /\ WF_vars(ConnectResolve(c) \/ ConnectReject(c))
        /\ WF_vars(DelayElapsed(c))
        /\ WF_vars(RequestReject(c)
                   \/ \E reply \in Replies(kind[c], arg[c]) : RequestResolve(c, reply))
        /\ WF_vars(DisconnectResolve(c) \/ DisconnectReject(c))

----------------------------------------------------------------------------
(* Properties of the facade *)

\* The endpoint pool call c's getClient walks.
PoolOf(c) == IF c \in DirectCalls THEN XRPL_SERVERS(PoolSize) ELSE XRPL_SERVERS(DashPoolSize)

\* The Client objects of call c whose connect() resolved: the sessions
\* getClient returned to it.
SessionsOf(c) == {i \in DOMAIN clients[c] : clients[c][i].state \notin {"connecting", "failed"}}

\* getClient has returned or thrown.
GetClientExited(c) == pc[c] \notin {"idle", "connecting"}

IsOpen(s) == s.state \in {"open", "closing"}

\* No session that call c acquired is open.
NoOpenSessionOf(c) == \A i \in DOMAIN clients[c] : ~IsOpen(clients[c][i])

\* Every endpoint call c tried failed to connect.
Exhausted(c) ==
    /\ GetClientExited(c)
    /\ \A i \in DOMAIN clients[c] : clients[c][i].state = "failed"

(* C1: every session getClient returned to a facade call is disconnected   *)
(* at most once while the call runs and exactly once, by that call, when   *)
(* the call has ended, whatever exit path it took.                         *)
C1_DisconnectedExactlyOnce ==
    \A c \in Calls : \A i \in SessionsOf(c) :
        /\ Len(clients[c][i].disconnects) <= 1
        /\ pc[c] = "done" => clients[c][i].disconnects = <<c>>

\* C1: a call that ended through the catch block after its reply threw during
\* normalization, with its session disconnected once.
C1_Witness ==
    \E c \in Calls :
        /\ pc[c] = "done" /\ path[c] = "catch" /\ IsSome(response[c])
        /\ SessionsOf(c) # {}
        /\ \A i \in SessionsOf(c) : clients[c][i].disconnects = <<c>>

(* C2: fetchBalance sends its account_info request only on the session of  *)
(* the endpoint that connected, after every earlier endpoint of the        *)
(* traversal failed; when it returns after a reply the value is the        *)
(* balance computed from that reply, and no session of the call is open.   *)
C2_Failover ==
    \A c \in Calls : kind[c] = "fetchBalance" =>
        /\ \A i \in DOMAIN clients[c] :
              /\ i < Len(clients[c]) =>
                    clients[c][i].state = "failed" /\ clients[c][i].requests = <<>>
              /\ clients[c][i].requests # <<>> =>
                    /\ i \in SessionsOf(c)
                    /\ clients[c][i].requests =
                          <<[by |-> c, command |-> "account_info", arg |-> arg[c]]>>
        /\ \A d \in Calls \ {c} : \A i \in DOMAIN clients[d] :
              \A r \in DOMAIN clients[d][i].requests : clients[d][i].requests[r].by # c
        /\ (pc[c] = "done" /\ outcome[c] = "returned") =>
              /\ NoOpenSessionOf(c)
              /\ path[c] # "catch" =>
                    /\ Get(response[c]).id = c
                    /\ result[c] = NormalizeBalance(Get(response[c]).body).value

\* C2: the first endpoint tried failed, the second connected, and fetchBalance
\* returned the balance of the reply (25.5 XRP held, 14 reserved, 11.5 available).
C2_Witness ==
    \E c \in Calls :
        /\ kind[c] = "fetchBalance" /\ pc[c] = "done" /\ outcome[c] = "returned"
        /\ Len(clients[c]) = 2
        /\ clients[c][1].state = "failed" /\ clients[c][2].state = "closed"
        /\ clients[c][2].requests # <<>>
        /\ result[c].available = [whole |-> 11, frac |-> 500000, unit |-> "XRP"]

(* C3 (as claimed): no facade operation ever rejects; a call that failed   *)
(* at any step ends resolved with its default value.                       *)
C3_NeverRejects ==
    \A c \in Calls : pc[c] = "done" =>
        /\ outcome[c] = "returned"
        /\ path[c] = "catch" => result[c] = DefaultResult(kind[c])

(* C4: when every endpoint of the pool failed to connect, fetchTransactions*)
(* has returned the empty list without throwing, no request was issued and *)
(* disconnect was called on no Client, by this call.                       *)
C4_FullExhaustion ==
    \A c \in Calls : (kind[c] = "fetchTransactions" /\ Exhausted(c)) =>
        /\ pc[c] = "done" /\ outcome[c] = "returned"
        /\ result[c] = EmptyList
        /\ \A d \in Calls : \A i \in DOMAIN clients[d] :
              /\ \A r \in DOMAIN clients[d][i].requests : clients[d][i].requests[r].by # c
              /\ \A r \in DOMAIN clients[d][i].disconnects : clients[d][i].disconnects[r] # c

\* C4: a fetchTransactions call whose getClient tried the whole pool in vain.
C4_Witness ==
    \E c \in Calls :
        /\ kind[c] = "fetchTransactions" /\ Exhausted(c)
        /\ Len(clients[c]) = Len(PoolOf(c))

(* C5: getClient makes one pass over a permutation of the configured list: *)
(* the servers it tried are distinct entries of the list, in the order of  *)
(* the shuffle; every attempt before the last failed; the Client returned  *)
(* is the last one tried, and it connected; getClient threw if and only if *)
(* every entry was tried and failed.                                       *)
C5_SinglePass ==
    \A c \in Calls :
        LET tried == clients[c]
            pool == PoolOf(c)
        IN /\ Len(tried) <= Len(pool)
           /\ \A i \in DOMAIN tried : tried[i].server \in Range(pool)
           /\ \A i, j \in DOMAIN tried : i # j => tried[i].server # tried[j].server
           /\ pc[c] = "connecting" =>
                 /\ Range(shuffled[c]) = Range(pool) /\ Len(shuffled[c]) = Len(pool)
                 /\ \A i \in DOMAIN tried : tried[i].server = shuffled[c][i]
           /\ \A i \in DOMAIN tried : i < Len(tried) => tried[i].state = "failed"
           /\ client[c] # None =>
                 client[c] = <<c, Len(tried)>> /\ Len(tried) \in SessionsOf(c)
           /\ GetClientExited(c) =>
                 (client[c] = None <=>
                    /\ {tried[i].server : i \in DOMAIN tried} = Range(pool)
                    /\ \A i \in DOMAIN tried : tried[i].state = "failed")

\* C5: getClient tried every entry of the pool and only the last one connected.
C5_Witness ==
    \E c \in Calls :
        /\ GetClientExited(c) /\ Len(clients[c]) = Len(PoolOf(c)) /\ Len(clients[c]) > 1
        /\ client[c] = <<c, Len(clients[c])>>
        /\ \A i \in 1..(Len(clients[c]) - 1) : clients[c][i].state = "failed"

(* C6 (as claimed): once getClient has returned or thrown, disconnect has  *)
(* been called on every Client whose connect() failed.                     *)
C6_FailedClientsReleased ==
    \A c \in Calls : GetClientExited(c) =>
        \A i \in DOMAIN clients[c] :
            clients[c][i].state = "failed" => clients[c][i].disconnects # <<>>

(* C7: concurrent facade calls do not interfere: the session a call holds  *)
(* is one its own getClient opened, no two calls hold the same session,    *)
(* every request and every disconnect on a session comes from the call     *)
(* that acquired it, and when all calls made have returned every session   *)
(* is closed.                                                              *)
C7_OwnSession ==
    /\ \A c \in Calls : client[c] # None => client[c][1] = c
    /\ \A c, d \in Calls : (c # d /\ client[c] # None) => client[c] # client[d]
    /\ \A c \in Calls : \A i \in DOMAIN clients[c] :
          /\ \A r \in DOMAIN clients[c][i].requests : clients[c][i].requests[r].by = c
          /\ \A r \in DOMAIN clients[c][i].disconnects : clients[c][i].disconnects[r] = c
    /\ (\A c \in Calls : pc[c] = "idle" \/ (pc[c] = "done" /\ outcome[c] = "returned")) =>
          \A c \in Calls : \A i \in SessionsOf(c) : clients[c][i].state = "closed"

\* C7: fetchTransactions and fetchBalance for the same address in flight together,
\* each awaiting the disconnect of its own session after its own request.
C7_Witness ==
    \E c, d \in Calls :
        /\ kind[c] = "fetchTransactions" /\ kind[d] = "fetchBalance" /\ arg[c] = arg[d]
        /\ pc[c] = "disconnecting" /\ pc[d] = "disconnecting"
        /\ client[c] # None /\ client[d] # None /\ client[c] # client[d]
        /\ Deref(clients, client[c]).requests # <<>>
        /\ Deref(clients, client[d]).requests # <<>>

(* C9 (as claimed): a call that has ended has returned, and the session it *)
(* acquired is closed.                                                     *)
C9_ReturnedWithSessionClosed ==
    \A c \in Calls : pc[c] = "done" =>
        /\ outcome[c] = "returned"
        /\ \A i \in SessionsOf(c) : clients[c][i].state = "closed"

\* Under FairSpec every call that was invoked ends.
EveryCallEnds == \A c \in Calls : (pc[c] # "idle") ~> (pc[c] = "done")

(* C8 (as claimed): the raw reply a run of loadData reads for display is   *)
(* the reply to the account_tx request of that run's own fetchTransactions *)
(* call (stated for runs in which every address loaded is a valid one).    *)
C8_RawReplyIsOwnReply ==
    \A l \in Loads :
        (/\ loads[l].pc = "shown"
         /\ \A m \in Loads : validateXRPLAddress(loads[m].address) \/ loads[m].pc = "unused"
         /\ TruthyReply(loads[l].consoleOutput)) =>
            Get(loads[l].consoleOutput).id = TxCall(l)

(* C10 (as claimed): fetchTransactions and fetchBalance are invoked only   *)
(* with an address validateXRPLAddress accepts.                            *)
C10_ValidatorGatesFetches ==
    \A c \in Calls :
        kind[c] \in {"fetchTransactions", "fetchBalance"} => validateXRPLAddress(arg[c])

----------------------------------------------------------------------------
(* Properties of the normalization *)

\* fetchTransactions has returned the list it built from a reply.
ListCall(c) ==
    /\ kind[c] = "fetchTransactions" /\ pc[c] = "done" /\ outcome[c] = "returned"
    /\ path[c] = "normal"

\* The entries of the reply and the records returned for them.
RawEntries(c) == Get(Get(response[c]).body.transactions)

Records(c) == result[c].items

\* fetchTransactionDetails has returned after a reply that carried a result.
DetailCall(c) ==
    /\ kind[c] = "fetchTransactionDetails" /\ pc[c] = "done" /\ outcome[c] = "returned"
    /\ IsSome(response[c]) /\ Get(response[c]).body.shape = "result"

\* The result of the tx reply and the record returned for it.
TxInfoOf(c) == Get(response[c]).body.result

DetailOf(c) == result[c].detail

\* The entry has the nested envelope and metadata, so a record is built.
Mappable(e) == IsSome(e.tx_json) /\ IsSome(e.meta) /\ TruthyStr(e.hash)

(* C11: when the metadata carries a delivered amount, the amount of the    *)
(* record is the conversion of that delivered amount whatever Amount and   *)
(* DeliverMax hold, in fetchTransactions and in fetchTransactionDetails.   *)
C11_DeliveredAmountFirst ==
    \A c \in Calls :
        /\ ListCall(c) =>
              \A i \in DOMAIN RawEntries(c) : \A j \in DOMAIN Records(c) :
                  LET e == RawEntries(c)[i]
                  IN (/\ Mappable(e) /\ Records(c)[j].hash = e.hash
                      /\ Truthy(Get(e.meta).delivered_amount)) =>
                        Records(c)[j].amount = formatXRPAmount(Get(e.meta).delivered_amount)
        /\ (DetailCall(c) /\ result[c].type = "detail") =>
              (Truthy(Get(TxInfoOf(c).meta).delivered_amount) =>
                  DetailOf(c).amount =
                      formatXRPAmount(Get(TxInfoOf(c).meta).delivered_amount))

\* C11: a history entry with delivered amount 3 XRP, DeliverMax 2 XRP and Amount
\* 1 XRP was returned with amount 3.000000 XRP.
C11_Witness ==
    \E c \in Calls :
        /\ ListCall(c) /\ Len(Records(c)) = 1
        /\ LET e == RawEntries(c)[1]
           IN /\ Get(e.meta).delivered_amount = Drops(3000000)
              /\ Get(e.tx_json).DeliverMax = Drops(2000000)
              /\ Get(e.tx_json).Amount = Drops(1000000)
        /\ Records(c)[1].amount = [whole |-> 3, frac |-> 0, unit |-> "XRP"]

(* C12 (as claimed): without a delivered amount, a record whose            *)
(* instruction carries both DeliverMax and Amount has the conversion of    *)
(* DeliverMax as amount, in both operations.                               *)
C12_DeliverMaxBeforeAmount ==
    \A c \in Calls :
        /\ ListCall(c) =>
              \A i \in DOMAIN RawEntries(c) : \A j \in DOMAIN Records(c) :
                  LET e == RawEntries(c)[i]
                  IN (/\ Mappable(e) /\ Records(c)[j].hash = e.hash
                      /\ ~Truthy(Get(e.meta).delivered_amount)
                      /\ Truthy(Get(e.tx_json).DeliverMax)) =>
                        Records(c)[j].amount = formatXRPAmount(Get(e.tx_json).DeliverMax)
        /\ (DetailCall(c) /\ result[c].type = "detail") =>
              ((/\ ~Truthy(Get(TxInfoOf(c).meta).delivered_amount)
                /\ Truthy(TxInfoOf(c).DeliverMax)) =>
                  DetailOf(c).amount = formatXRPAmount(TxInfoOf(c).DeliverMax))

\* The envelope of an entry under either shape, the nested one preferred,
\* and the hash that goes with it.
Envelope(e) == IF IsSome(e.tx_json) THEN e.tx_json ELSE e.tx

EntryHash(e) ==
    IF TruthyStr(e.hash) THEN e.hash
    ELSE IF IsSome(e.tx) THEN Get(e.tx).hash
    ELSE None

(* C13 (as claimed): an entry whose envelope is given in the flat or in    *)
(* the nested shape, with hash, sender and status, is normalized from that *)
(* envelope (the nested one when both are present).                        *)
C13_BothShapesNormalized ==
    \A c \in Calls : ListCall(c) =>
        \A i \in DOMAIN RawEntries(c) :
            LET e == RawEntries(c)[i]
            IN (/\ IsSome(Envelope(e)) /\ IsSome(e.meta)
                /\ TruthyStr(EntryHash(e))
                /\ TruthyStr(Get(Envelope(e)).Account)
                /\ TruthyStr(Get(e.meta).TransactionResult)) =>
                  \E j \in DOMAIN Records(c) :
                      /\ Records(c)[j].hash = EntryHash(e)
                      /\ Records(c)[j].from = Get(Envelope(e)).Account

\* The entry passes the checks of the map and of the filter.
Viable(e) ==
    /\ Mappable(e)
    /\ TruthyStr(Get(e.tx_json).Account)
    /\ TruthyStr(Get(e.meta).TransactionResult)

(* C14: every record fetchTransactions returns has a non-empty hash, a     *)
(* non-empty sender and a status; the records are, in order, those of the  *)
(* entries that carry envelope, metadata, hash, sender and status: an      *)
(* entry lacking one of them is absent, an entry with all of them present. *)
C14_MinimumViability ==
    \A c \in Calls : ListCall(c) =>
        /\ \A j \in DOMAIN Records(c) :
              /\ TruthyStr(Records(c)[j].hash)
              /\ TruthyStr(Records(c)[j].from)
              /\ TruthyStr(Records(c)[j].status)
        /\ LET kept == SelectSeq(RawEntries(c), Viable)
           IN /\ Len(Records(c)) = Len(kept)
              /\ \A j \in DOMAIN kept :
                    /\ Records(c)[j].hash = kept[j].hash
                    /\ Records(c)[j].from = Get(kept[j].tx_json).Account
                    /\ Records(c)[j].status = Get(kept[j].meta).TransactionResult

\* C14: of a history of two entries the first, which names no sender, was
\* dropped and the second returned.
C14_Witness ==
    \E c \in Calls :
        /\ ListCall(c) /\ Len(RawEntries(c)) = 2 /\ Len(Records(c)) = 1
        /\ Mappable(RawEntries(c)[1])
        /\ ~TruthyStr(Get(RawEntries(c)[1].tx_json).Account)
        /\ Records(c)[1].hash = Some("H2")

(* C15 (as claimed): a record fetchTransactionDetails returns has hash,    *)
(* sender and status defined; a reply lacking one of them yields null.     *)
C15_NoPartialDetail ==
    \A c \in Calls : DetailCall(c) =>
        IF /\ IsSome(TxInfoOf(c).hash) /\ IsSome(TxInfoOf(c).Account)
           /\ IsSome(TxInfoOf(c).meta) /\ IsSome(Get(TxInfoOf(c).meta).TransactionResult)
        THEN result[c].type = "detail"
        ELSE result[c] = NullResult

\* The entry, and the tx result, without the epoch-offset integer.
EntryWithoutDate(e) == [e EXCEPT !.tx_json = Some([Get(e.tx_json) EXCEPT !.date = None])]

ReplyWithoutDate(reply) == [reply EXCEPT !.result.date = None]

(* C16 (as claimed): when a reply carries both close_time_iso and date the *)
(* record's date is the one derived from close_time_iso alone, in both     *)
(* operations.                                                             *)
C16_IsoBeforeInteger ==
    \A c \in Calls :
        /\ ListCall(c) =>
              \A i \in DOMAIN RawEntries(c) : \A j \in DOMAIN Records(c) :
                  LET e == RawEntries(c)[i]
                  IN (/\ Mappable(e) /\ Records(c)[j].hash = e.hash
                      /\ IsSome(e.close_time_iso) /\ IsSome(Get(e.tx_json).date)) =>
                        Records(c)[j].date = Get(MapEntry(EntryWithoutDate(e))).date
        /\ (DetailCall(c) /\ result[c].type = "detail") =>
              ((IsSome(TxInfoOf(c).close_time_iso) /\ IsSome(TxInfoOf(c).date)) =>
                  DetailOf(c).date =
                      NormalizeDetails(ReplyWithoutDate(Get(response[c]).body)).value.detail.date)

(* C17 (as claimed): in fetchTransactions a record built from an entry     *)
(* with close_time_iso is dated at the instant close_time_iso names.       *)
C17_IsoInstantExact ==
    \A c \in Calls : ListCall(c) =>
        \A i \in DOMAIN RawEntries(c) : \A j \in DOMAIN Records(c) :
            LET e == RawEntries(c)[i]
            IN (/\ Mappable(e) /\ Records(c)[j].hash = e.hash
                /\ IsSome(e.close_time_iso)) =>
                  Records(c)[j].date =
                      [k |-> "instant", unix |-> IsoToUnixSeconds(Get(e.close_time_iso))]

(* C18 (as claimed): a reply carrying only the epoch-offset integer d,     *)
(* d = 0 included, is dated d + 946684800 seconds after the Unix epoch, in *)
(* both operations.                                                        *)
C18_EpochOffsetConversion ==
    \A c \in Calls :
        /\ ListCall(c) =>
              \A i \in DOMAIN RawEntries(c) : \A j \in DOMAIN Records(c) :
                  LET e == RawEntries(c)[i]
                  IN (/\ Mappable(e) /\ Records(c)[j].hash = e.hash
                      /\ ~IsSome(e.close_time_iso) /\ IsSome(Get(e.tx_json).date)) =>
                        Records(c)[j].date =
                            [k |-> "instant",
                             unix |-> Get(Get(e.tx_json).date) + RippleEpochOffset]
        /\ (DetailCall(c) /\ result[c].type = "detail") =>
              ((~IsSome(TxInfoOf(c).close_time_iso) /\ IsSome(TxInfoOf(c).date)) =>
                  DetailOf(c).date =
                      [k |-> "instant", unix |-> Get(TxInfoOf(c).date) + RippleEpochOffset])

(* C19 (as claimed): a record whose reply carries neither close_time_iso   *)
(* nor date has the date "Unknown", in both operations.                    *)
C19_UnknownDate ==
    \A c \in Calls :
        /\ ListCall(c) =>
              \A i \in DOMAIN RawEntries(c) : \A j \in DOMAIN Records(c) :
                  LET e == RawEntries(c)[i]
                  IN (/\ Mappable(e) /\ Records(c)[j].hash = e.hash
                      /\ ~IsSome(e.close_time_iso) /\ ~IsSome(Get(e.tx_json).date)) =>
                        Records(c)[j].date = [k |-> "unknown"]
        /\ (DetailCall(c) /\ result[c].type = "detail") =>
              ((~IsSome(TxInfoOf(c).close_time_iso) /\ ~IsSome(TxInfoOf(c).date)) =>
                  DetailOf(c).date = [k |-> "unknown"])

\* The classification of the instruction fields: the tag is 29202152 or the
\* decoded first memo starts with 'BitBob'.
Classified(fields) ==
    \/ HasBitbobTag(fields.SourceTag)
    \/ /\ IsSome(FirstMemoData(fields.Memos))
       /\ StartsWith(hexToAscii(Get(FirstMemoData(fields.Memos))), BitBobPrefix)

(* C20 (as claimed): isBitbob of every record is exactly true when the     *)
(* source tag is 29202152 or the decoded memo starts with 'BitBob', and    *)
(* exactly false otherwise, in both operations.                            *)
C20_ClassificationIsOr ==
    \A c \in Calls :
        /\ ListCall(c) =>
              \A i \in DOMAIN RawEntries(c) : \A j \in DOMAIN Records(c) :
                  LET e == RawEntries(c)[i]
                  IN (Mappable(e) /\ Records(c)[j].hash = e.hash) =>
                        Records(c)[j].isBitbob =
                            IF Classified(Get(e.tx_json)) THEN "true" ELSE "false"
        /\ (DetailCall(c) /\ result[c].type = "detail") =>
              DetailOf(c).isBitbob = IF Classified(TxInfoOf(c)) THEN "true" ELSE "false"

\* The viable entries of the reply, in the order of the reply.
Kept(c) == SelectSeq(RawEntries(c), Viable)

(* C21: every record fetchTransactions returns has a destination: the      *)
(* Destination of the instruction when it has one, else 'XRPL DEX' for an  *)
(* OfferCreate, else 'Unknown'; it is never empty and never undefined.     *)
C21_DestinationFallback ==
    \A c \in Calls : ListCall(c) =>
        /\ Len(Records(c)) = Len(Kept(c))
        /\ \A j \in DOMAIN Kept(c) :
              LET txData == Get(Kept(c)[j].tx_json)
                  to == Records(c)[j].to
              IN /\ IsSome(to) /\ Get(to) # ""
                 /\ TruthyStr(txData.Destination) => to = txData.Destination
                 /\ (~TruthyStr(txData.Destination)
                     /\ txData.TransactionType = Some("OfferCreate")) =>
                        to = Some("XRPL DEX")
                 /\ (~TruthyStr(txData.Destination)
                     /\ txData.TransactionType # Some("OfferCreate")) =>
                        to = Some("Unknown")

\* C21: an OfferCreate without Destination was returned with destination
\* 'XRPL DEX'.
C21_Witness ==
    \E c \in Calls :
        /\ ListCall(c) /\ Len(Records(c)) = 1 /\ Len(Kept(c)) = 1
        /\ Get(Kept(c)[1].tx_json).Destination = None
        /\ Get(Kept(c)[1].tx_json).TransactionType = Some("OfferCreate")
        /\ Records(c)[1].to = Some("XRPL DEX")

(* C22 (as claimed): every record fetchTransactionDetails returns for a    *)
(* reply that names hash, sender and status has both counterparties        *)
(* defined: from is the Account, to is the Destination when there is one,  *)
(* else 'Unknown' (or 'XRPL DEX' for an OfferCreate); never undefined.     *)
C22_DetailCounterparties ==
    \A c \in Calls : (DetailCall(c) /\ result[c].type = "detail") =>
        LET txInfo == TxInfoOf(c)
        IN (/\ TruthyStr(txInfo.hash) /\ TruthyStr(txInfo.Account)
            /\ IsSome(txInfo.meta) /\ TruthyStr(Get(txInfo.meta).TransactionResult)) =>
              /\ DetailOf(c).from = txInfo.Account
              /\ IsSome(DetailOf(c).to)
              /\ IsSome(txInfo.Destination) => DetailOf(c).to = txInfo.Destination
              /\ ~IsSome(txInfo.Destination) =>
                    \/ DetailOf(c).to = Some("Unknown")
                    \/ /\ txInfo.TransactionType = Some("OfferCreate")
                       /\ DetailOf(c).to = Some("XRPL DEX")

\* fetchBalance has returned.
BalanceCall(c) == kind[c] = "fetchBalance" /\ pc[c] = "done" /\ outcome[c] = "returned"

\* An amount of XRP with six decimals, in drops.
InDrops(x) == x.whole * 1000000 + x.frac

(* C23: on every path fetchBalance returns available = max(0, total -      *)
(* reserve): after a reply with account data, total is Balance / 1 000 000 *)
(* and reserve is 10 + 2 x OwnerCount (OwnerCount 0 when absent); on the   *)
(* early and the catch path the three amounts are zero.                    *)
C23_AvailableIsClampedDifference ==
    \A c \in Calls : BalanceCall(c) =>
        LET b == result[c]
            diff == InDrops(b.total) - InDrops(b.reserve)
        IN /\ b.type = "balance"
           /\ InDrops(b.available) = (IF diff > 0 THEN diff ELSE 0)
           /\ b.available.frac \in 0..999999 /\ b.available.whole >= 0
           /\ path[c] = "normal" =>
                LET accountData == Get(Get(response[c]).body.account_data)
                    owned == IF accountData.OwnerCount = None
                             THEN 0 ELSE Get(accountData.OwnerCount)
                IN /\ InDrops(b.total) = accountData.Balance
                   /\ b.reserve = [whole |-> 10 + 2 * owned, frac |-> 0, unit |-> "XRP"]
           /\ path[c] # "normal" =>
                InDrops(b.total) = 0 /\ InDrops(b.reserve) = 0

\* C23: an account holding 5 XRP and owning two objects was returned with
\* reserve 14 XRP and nothing available.
C23_Witness ==
    \E c \in Calls :
        /\ BalanceCall(c) /\ path[c] = "normal"
        /\ result[c].total = [whole |-> 5, frac |-> 0, unit |-> "XRP"]
        /\ result[c].reserve = [whole |-> 14, frac |-> 0, unit |-> "XRP"]
        /\ result[c].available = [whole |-> 0, frac |-> 0, unit |-> "XRP"]

SixDecimalXRP(x) ==
    /\ DOMAIN x = {"whole", "frac", "unit"}
    /\ x.whole \in Nat /\ x.frac \in 0..999999 /\ x.unit = "XRP"

(* C25 (as claimed): amount and fee of every record returned by            *)
(* fetchTransactions and fetchTransactionDetails are numbers with exactly  *)
(* six decimals followed by ' XRP', whatever the encoding of the value.    *)
C25_UniformAmounts ==
    \A c \in Calls :
        /\ ListCall(c) =>
              \A j \in DOMAIN Records(c) :
                  SixDecimalXRP(Records(c)[j].amount) /\ SixDecimalXRP(Records(c)[j].fee)
        /\ (DetailCall(c) /\ result[c].type = "detail") =>
              SixDecimalXRP(DetailOf(c).amount) /\ SixDecimalXRP(DetailOf(c).fee)

\* The first memo carries no MemoData, or an empty one.
NoMemoData(memos) ==
    \/ memos = None
    \/ Len(Get(memos)) = 0
    \/ Get(memos)[1] = None
    \/ Len(Get(Get(memos)[1])) = 0

\* The character codes of the byte pairs of a run of hexadecimal digits.
BytePairs(hex) == [i \in 1..(Len(hex) \div 2) |-> 16 * hex[2 * i - 1] + hex[2 * i]]

\* The memo a reply's Memos must yield.
ExpectedMemo(memos) ==
    IF NoMemoData(memos) THEN None ELSE Some(BytePairs(Get(Get(memos)[1])))

(* C26: without Memos, with an empty list, or with a first memo whose      *)
(* MemoData is missing or empty, the record has no memo (absent, not the   *)
(* empty text) and the call returns normally; otherwise the memo is the    *)
(* MemoData decoded byte pair by byte pair, so that a MemoData that is the *)
(* hexadecimal encoding of a text yields that text.                        *)
C26_MemoDecoding ==
    \A c \in Calls :
        /\ ListCall(c) =>
              /\ Len(Records(c)) = Len(Kept(c))
              /\ \A j \in DOMAIN Kept(c) :
                    LET memos == Get(Kept(c)[j].tx_json).Memos
                    IN /\ Records(c)[j].memo = ExpectedMemo(memos)
                       /\ Records(c)[j].memo # Some(<<>>)
                       /\ \A t \in MemoTexts :
                             memos = Some(<<Some(AsciiToHex(t))>>) =>
                                 Records(c)[j].memo = Some(t)
        /\ (DetailCall(c) /\ IsSome(TxInfoOf(c).meta)) =>
              /\ result[c].type = "detail" /\ path[c] = "normal"
              /\ DetailOf(c).memo = ExpectedMemo(TxInfoOf(c).Memos)
              /\ DetailOf(c).memo # Some(<<>>)
              /\ \A t \in MemoTexts :
                    TxInfoOf(c).Memos = Some(<<Some(AsciiToHex(t))>>) =>
                        DetailOf(c).memo = Some(t)

\* C26: records were returned without memo for an empty memo list and for a
\* first memo with empty MemoData, and with memo 'Hi' for MemoData 4869.
C26_Witness ==
    \/ \E c \in Calls :
          /\ ListCall(c) /\ Len(Records(c)) = 1 /\ Len(Kept(c)) = 1
          /\ Get(Kept(c)[1].tx_json).Memos = Some(<<Some(<<4, 8, 6, 9>>)>>)
          /\ Records(c)[1].memo = Some(<<72, 105>>)
    \/ \E c \in Calls :
          /\ ListCall(c) /\ Len(Records(c)) = 1 /\ Len(Kept(c)) = 1
          /\ Get(Kept(c)[1].tx_json).Memos = Some(<<Some(<<>>)>>)
          /\ Records(c)[1].memo = None
    \/ \E c \in Calls :
          /\ DetailCall(c) /\ result[c].type = "detail"
          /\ TxInfoOf(c).Memos = Some(<<>>)
          /\ DetailOf(c).memo = None

(* C28: the records fetchTransactions returns are, position by position,   *)
(* those of the viable entries of the reply in the order of the reply:     *)
(* entries with the same hash are all returned, nothing is reordered, and  *)
(* the result is never longer than the reply.                              *)
C28_ReplyOrderKept ==
    \A c \in Calls : ListCall(c) =>
        /\ Len(Records(c)) <= Len(RawEntries(c))
        /\ Len(Records(c)) = Len(Kept(c))
        /\ \A j \in DOMAIN Kept(c) :
              /\ Records(c)[j].hash = Kept(c)[j].hash
              /\ Records(c)[j].from = Get(Kept(c)[j].tx_json).Account
        /\ \A h \in {Records(c)[j].hash : j \in DOMAIN Records(c)}
                   \cup {Kept(c)[j].hash : j \in DOMAIN Kept(c)} :
              Cardinality({j \in DOMAIN Records(c) : Records(c)[j].hash = h})
                  = Cardinality({j \in DOMAIN Kept(c) : Kept(c)[j].hash = h})

\* C28: of a reply of three entries, the first and the last with the same
\* hash and the second not viable, both twins were returned in reply order.
C28_Witness ==
    \E c \in Calls :
        /\ ListCall(c) /\ Len(RawEntries(c)) = 3 /\ Len(Records(c)) = 2
        /\ ~Viable(RawEntries(c)[2])
        /\ Records(c)[1].hash = Records(c)[2].hash
        /\ Records(c)[1].from = Some(otherAddress)
        /\ Records(c)[2].from = Some(demoAddress)

\* The address the Dashboard is showing, and the runs of loadData.
CurrentAddress == effectiveAddress(route)

Started == {l \in Loads : loads[l].pc # "unused"}

\* The run of loadData started last: the one for the current address.
LatestLoad == CHOOSE l \in Started : \A m \in Started : m <= l

(* C29 (as claimed): once every run of loadData has completed, in whatever *)
(* order, the transactions and the balance displayed are those fetched for *)
(* the current address; and loading is false only when no run of loadData  *)
(* for the current address is in flight. Stated for runs in which every    *)
(* address loaded is a valid one and no fetch rejected.                    *)
C29_CurrentAddressOnly ==
    (/\ page = "dashboard" /\ Started # {}
     /\ \A l \in Started : validateXRPLAddress(loads[l].address)
     /\ \A l \in Started : loads[l].pc # "failed"
     /\ \A c \in Calls : path[c] \in {"none", "normal"}) =>
        /\ (\A l \in Started : loads[l].pc = "shown") =>
              /\ loads[LatestLoad].address = CurrentAddress
              /\ ui.transactions = result[TxCall(LatestLoad)].items
              /\ ui.balance = result[BalCall(LatestLoad)]
        /\ ~ui.loading =>
              ~\E l \in Started :
                  loads[l].pc = "awaiting" /\ loads[l].address = CurrentAddress

\* The Transaction page found the record of its hash in sessionStorage.
CacheHit == page = "transaction" /\ txPage.source = "cache"

\* The facade calls that were ever invoked.
Invoked == {c \in Calls : pc[c] # "idle"}

(* C27 (as claimed): when sessionStorage holds an entry for the hash, the  *)
(* Transaction page calls fetchTransactionDetails no further time, creates *)
(* no client, and shows the stored record unmodified.                      *)
C27_CacheBypass ==
    CacheHit =>
        /\ txPage.call = None /\ ~txPage.loading /\ txPage.error = None
        /\ Cardinality(Invoked) + txPage.hits = txPage.visits
        /\ \A c \in Calls \ Invoked : clients[c] = <<>>
        /\ txPage.transaction = sessionStorage.tx[Get(txPage.hash)]

\* The iterations of the per-server variant's loop, one client each.
Iterations == DOMAIN multi.clients

\* A session with the server is open on the client.
MultiSessionOpen(cl) == cl.state = "open" \/ (cl.state = "closing" /\ cl.wasOpen)

\* What iteration k obtained from its server: the valid records of the reply.
Yield(k) ==
    LET cl == multi.clients[k]
    IN IF cl.reply = None THEN <<>>
       ELSE LET n == MultiNormalize(Get(cl.reply))
            IN IF n.k = "list" THEN n.transactions ELSE <<>>

(* C30: the per-server variant runs its loop at most once per server, in   *)
(* list order; every client it creates is disconnected exactly once before *)
(* the next iteration starts; at most one session is open at any time and  *)
(* none once the function has returned; and it returns the list of the     *)
(* first server, in list order, that yields a valid transaction, having    *)
(* moved on after every failed connect, failed request and reply without   *)
(* valid transaction, else the empty list.                                 *)
C30_PerServerWalk ==
    /\ Len(multi.clients) <= Len(multi.servers)
    /\ \A k \in Iterations : multi.clients[k].server = multi.servers[k]
    /\ \A k \in Iterations :
          /\ multi.clients[k].disconnects <= 1
          /\ k < Len(multi.clients) =>
                /\ multi.clients[k].disconnects = 1
                /\ multi.clients[k].state = "closed"
                /\ Yield(k) = <<>>
    /\ Cardinality({k \in Iterations : MultiSessionOpen(multi.clients[k])}) <= 1
    /\ Cardinality({k \in Iterations : multi.clients[k].state # "closed"}) <= 1
    /\ (multi.pc = "done" /\ multi.outcome = "returned") =>
          /\ \A k \in Iterations :
                multi.clients[k].state = "closed" /\ multi.clients[k].disconnects = 1
          /\ IF \E k \in Iterations : Yield(k) # <<>>
             THEN LET first == CHOOSE k \in Iterations :
                                  Yield(k) # <<>> /\ \A j \in 1..(k - 1) : Yield(j) = <<>>
                  IN multi.result = Yield(first) /\ Len(multi.clients) = first
             ELSE multi.result = <<>> /\ Len(multi.clients) = Len(multi.servers)

\* C30: the first server failed to connect, the second answered without a valid
\* transaction, and the list of the third was returned with every client
\* disconnected once and closed.
C30_Witness ==
    /\ multi.pc = "done" /\ multi.outcome = "returned"
    /\ Len(multi.clients) = 3
    /\ multi.clients[1].reply = None /\ ~multi.clients[1].wasOpen
    /\ multi.clients[2].reply # None /\ Yield(2) = <<>>
    /\ Len(multi.result) = 2
    /\ multi.result[1].hash = ServerHash(3)
    /\ \A k \in Iterations :
          multi.clients[k].state = "closed" /\ multi.clients[k].disconnects = 1
====
